---- MODULE Spec2Model ----
(***************************************************************************)
(* Ingestion pipeline of the knowledge-management backend:                 *)
(*   services/ingestion_service.py  IngestionService (governor, per-       *)
(*                                   document orchestrator, record store)  *)
(*   routers/upload.py              upload endpoints (record pre-creation)  *)
(*   tasks/ingestion_tasks.py       Celery distribution of documents       *)
(*   clients/pinecone_client.py     vector upserts and deletes             *)
(*   clients/groq_whisper_client.py transcription of audio in windows      *)
(*   clients/video_scene_detector.py scene detection, key-frame selection  *)
(*                                                                         *)
(* Python None is the value None below; every metadata value is a string,  *)
(* and formatted strings (ids, storage keys) are built by concatenation as *)
(* the f-strings of the source build them.                                 *)
(***************************************************************************)
EXTENDS Integers, Sequences, FiniteSets, TLC

(* ---------------------------- bounds ---------------------------------- *)
\* pipelines started through ingest_documents (all calls together)
NumIngest == 3
\* runs of _process_single_document_with_existing_id
NumReruns == 1
\* capacity of the global semaphore (settings.MAX_THREAD_WORKERS)
Capacity == 2
\* files of one request to the upload endpoint
MaxFiles == 2
\* scene chunks of a video bundle
MaxScenes == 2
\* pre-chunks of a non-video document
MaxPreChunks == 2
\* chunks the chunker cuts one pre-chunk into
MaxChunks == 2
\* pipeline runs in which some step raises
MaxRaising == 2
\* tasks cancelled while in flight
MaxCancelled == 1
\* time windows of a chunked audio file
MaxWindows == 3
\* frames of a video
MaxFrames == 4
\* scenes of a scene list handed to the key-frame selection
MaxSceneList == 2
\* largest number of texts given to add_documents_sync
MaxItems == 51
\* threads that use the scene detector
NumThreads == 2

(* ---------------------------- values ---------------------------------- *)
None == "<None>"

Pipelines == 1..(NumIngest + NumReruns)
IngestPipelines == 1..NumIngest
RerunPipelines == (NumIngest + 1)..(NumIngest + NumReruns)

Digits == <<"0", "1", "2", "3", "4", "5", "6", "7", "8", "9">>
\* str(n) for the small naturals of the model
ToStr(n) == Digits[n + 1]

\* the ObjectId string the document store assigns to the record that
\* ingest pipeline p inserts
NewDocumentId(p) == "d" \o ToStr(p)
DocIds == {NewDocumentId(p) : p \in IngestPipelines}

\* the file each pipeline is given: two uploads of the same name and a video
FileOf(p) == IF p % 2 = 0 THEN "b.mp4" ELSE "a.pdf"
FolderName == "kb"

\* a Python dict with string keys is a function from its keys; {} and an
\* absent (None) additional_metadata both read as EmptyDict, since the code
\* only ever uses (additional_metadata or {})
EmptyDict == [k \in {} |-> None]

\* d1 overridden by d2, as {**d1, **d2}
Merge(d1, d2) ==
    [k \in DOMAIN d1 \cup DOMAIN d2 |-> IF k \in DOMAIN d2 THEN d2[k] ELSE d1[k]]

\* bson.ObjectId(s) followed by str(): the 24 hex digits are parsed into
\* bytes (either case is accepted) and written back in lower case
ObjectId(s) == IF s = "5F1A" THEN "5f1a" ELSE s

\* the optional inputs of one ingest_documents call: an organization id
\* written in lower or in upper case hex digits, and an additional_metadata
\* that has the keys source and document_id
CallInputs ==
    [user_id : {None, "u1"},
     organization_id : {None, "5f1a", "5F1A"},
     additional_metadata : {EmptyDict,
                            ("source" :> "youtube") @@ ("document_id" :> "ext-7")}]

Stages == <<"initializing", "uploading_extracting", "content_extracted",
            "embedding", "completed">>

(* ---------------------------- state ----------------------------------- *)
VARIABLES
    sem,        \* asyncio.Semaphore._value of _global_ingestion_semaphore
    pc,         \* position of each pipeline
    call,       \* user_id, organization_id, additional_metadata of the calls
    file,       \* file name each pipeline was given
    doc,        \* document id each pipeline works on
    raw,        \* raw_content returned by extract_raw_data (kept as the
                \* content a completed run has ingested)
    pre,        \* number of pre-chunks already upserted (non-video loop)
    total,      \* total_chunks of the run
    exc,        \* str(e) of the exception the run ended with
    outcome,    \* how the pipeline's coroutine ended
    docs,       \* the "documents" collection: id -> record
    objects,    \* object storage: the keys that hold an object
    vectors,    \* vector store: the upserted vectors
    stageLog,   \* processing_stage values each run has recorded, in order
    raising,    \* number of runs in which a step has raised
    cancelled,  \* number of tasks cancelled
    reqPc,          \* position of the upload endpoint's request
    nfiles,         \* number of files of the request
    documents_data, \* the list the endpoint builds for the Celery task
    mainQueue,      \* doc_data entries process_document_ids_task still has to queue
    task_info,      \* task_info of process_document_ids_task
    workerQueue,    \* queued process_single_document_task calls
    delPc,          \* position of the delete_folder call
    documents,      \* the records delete_folder found in the folder
    deleted_docs,   \* ids delete_folder has deleted
    errors,         \* ids whose delete_document raised inside delete_folder
    add_args,       \* texts, metadatas and ids of an add_documents_sync call
    add_i,          \* i of its loop over the batches
    embed_calls,    \* the inputs of its embeddings.create calls, in call order
    upserts,        \* the vectors of its successful upsert requests, in order
    all_doc_ids,    \* all_doc_ids of the call
    addPc,          \* position of the call
    audio,          \* the audio file: its duration and what the backend
                    \* returns for each of its windows
    all_segments,   \* all_segments of _transcribe_chunked_file
    chunk_i,        \* number of windows transcribed so far
    calls,          \* the calls of the transcription backend so far: the
                    \* stretch of the audio each one was given
    video,          \* the video: its frames and the cuts the detector finds
    scenes,         \* the scene list of detect_scenes_from_video
    key_frames,     \* the list a key-frame selection returns
    vidPc,          \* position of the video processing
    instance,        \* VideoSceneDetector._instance: 0 for None, 1 for the object
    class_lock,      \* the thread that holds VideoSceneDetector._lock, 0 if free
    global_detector, \* _video_scene_detector: 0 for None, 1 for the object
    client_lock,     \* the thread that holds _client_lock, 0 if free
    initialized,     \* hasattr(self, '_initialized')
    detection_lock,  \* the Lock object self._detection_lock refers to: 0 while
                     \* the attribute is missing, else the number of the object
    lock_holder,     \* for every Lock object __init__ has created, the thread
                     \* that holds it, 0 if free
    tpc,             \* position of each thread
    caller,          \* how the thread obtains the detector
    tlock            \* the Lock object the thread has entered `with` on

pipeVars == <<sem, pc, call, file, doc, raw, pre, total, exc, outcome,
              objects, vectors, stageLog, raising, cancelled>>

uploadVars == <<reqPc, nfiles, documents_data, mainQueue, task_info, workerQueue>>

deleteVars == <<delPc, documents, deleted_docs, errors>>

batchVars == <<add_args, add_i, embed_calls, upserts, all_doc_ids, addPc>>

vars == <<sem, pc, call, file, doc, raw, pre, total, exc, outcome,
          docs, objects, vectors, stageLog, raising, cancelled,
          reqPc, nfiles, documents_data, mainQueue, task_info, workerQueue,
          delPc, documents, deleted_docs, errors,
          add_args, add_i, embed_calls, upserts, all_doc_ids, addPc,
          audio, all_segments, chunk_i, calls, video, scenes, key_frames, vidPc,
          instance, class_lock, global_detector, client_lock, initialized,
          detection_lock, lock_holder, tpc, caller, tlock>>

audioVars == <<audio, all_segments, chunk_i, calls>>

\* the singleton of the scene detector, its locks and the threads using it
detectorVars == <<instance, class_lock, global_detector, client_lock, initialized,
                  detection_lock, lock_holder, tpc, caller, tlock>>

videoVars == <<video, scenes, key_frames, vidPc, detectorVars>>

\* the variables of the ingestion, upload and deletion operations
serviceVars == <<sem, pc, call, file, doc, raw, pre, total, exc, outcome,
                 docs, objects, vectors, stageLog, raising, cancelled,
                 reqPc, nfiles, documents_data, mainQueue, task_info, workerQueue,
                 delPc, documents, deleted_docs, errors,
                 add_args, add_i, embed_calls, upserts, all_doc_ids, addPc>>

(* ------------------------ pure helpers -------------------------------- *)
\* utils.file_utils.sanitize_filename on the names of the model, which hold
\* no character it replaces
sanitize_filename(name) == name

\* utils.file_utils.get_file_extension on the names of the model
get_file_extension(name) == IF name = "b.mp4" THEN ".mp4" ELSE ".pdf"

\* the storage key _process_single_document computes
FileKey(organization_id, folder_name, file_name) ==
    IF organization_id # None
    THEN organization_id \o "/" \o folder_name \o "/" \o sanitize_filename(file_name)
    ELSE folder_name \o "/" \o sanitize_filename(file_name)

\* None as the value of an integer argument (progress_current,
\* progress_total)
NoCount == 0 - 1

\* None as the value of the processing_progress field
NoProgress == EmptyDict

\* mutant: the record is inserted without the status fields, as by the
\* older _store_document_in_mongodb
NewDocument_nostatus(file_name, folder_name, file_key, user_id, organization_id) ==
    [file_name |-> file_name,
     folder_name |-> folder_name,
     raw_content |-> None,
     file_key |-> file_key,
     user_id |-> IF user_id # None THEN ObjectId(user_id) ELSE None,
     organization_id |-> IF organization_id # None THEN ObjectId(organization_id) ELSE None,
     status |-> None,
     processing_stage |-> None,
     processing_stage_description |-> None,
     processing_progress |-> NoProgress,
     error |-> None,
     completed_at |-> None,
     failed_at |-> None]

\* the record _create_document_with_status inserts
NewDocument(file_name, folder_name, file_key, user_id, organization_id) ==
    [file_name |-> file_name,
     folder_name |-> folder_name,
     raw_content |-> None,
     file_key |-> file_key,
     user_id |-> IF user_id # None THEN ObjectId(user_id) ELSE None,
     organization_id |-> IF organization_id # None THEN ObjectId(organization_id) ELSE None,
     status |-> "processing",
     processing_stage |-> "initializing",
     processing_stage_description |-> "Starting ingestion",
     processing_progress |-> NoProgress,
     error |-> None,
     completed_at |-> None,
     failed_at |-> None]

\* the progress dict of _update_document_status; a percentage is added when
\* both counts are given and the total is positive
Progress(progress_current, progress_total) ==
    LET current == IF progress_current # NoCount
                   THEN "current" :> progress_current ELSE EmptyDict
        total_ == IF progress_total # NoCount
                  THEN "total" :> progress_total ELSE EmptyDict
        both == progress_current # NoCount /\ progress_total # NoCount
        percentage == IF both
                      THEN IF progress_total > 0
                           THEN "percentage" :> ((progress_current * 100) \div progress_total)
                           ELSE EmptyDict
                      ELSE EmptyDict
    IN  Merge(Merge(current, total_), percentage)

\* mutant: the error message is not written
StatusFields_noerror(rec, status, stage, stage_description, progress_current, progress_total, error, completed_at, failed_at) ==
    [rec EXCEPT
       !.status = IF status # None THEN status ELSE @,
       !.processing_stage = IF stage # None THEN stage ELSE @,
       !.processing_stage_description =
            IF stage_description # None THEN stage_description ELSE @,
       !.processing_progress =
            IF progress_current # NoCount \/ progress_total # NoCount
            THEN Progress(progress_current, progress_total) ELSE @,
       !.completed_at = IF completed_at # None THEN completed_at ELSE @,
       !.failed_at = IF failed_at # None THEN failed_at ELSE @]

\* the $set of _update_document_status: an argument that is None leaves its
\* field alone
StatusFields(rec, status, stage, stage_description, progress_current, progress_total, error, completed_at, failed_at) ==
    [rec EXCEPT
       !.status = IF status # None THEN status ELSE @,
       !.processing_stage = IF stage # None THEN stage ELSE @,
       !.processing_stage_description =
            IF stage_description # None THEN stage_description ELSE @,
       !.processing_progress =
            IF progress_current # NoCount \/ progress_total # NoCount
            THEN Progress(progress_current, progress_total) ELSE @,
       !.error = IF error # None THEN error ELSE @,
       !.completed_at = IF completed_at # None THEN completed_at ELSE @,
       !.failed_at = IF failed_at # None THEN failed_at ELSE @]

\* the $set of _update_document_content
ContentFields(rec, raw_content, stage, stage_description) ==
    [rec EXCEPT
       !.raw_content = raw_content,
       !.processing_stage = IF stage # None THEN stage ELSE @,
       !.processing_stage_description =
            IF stage_description # None THEN stage_description ELSE @]

\* _update_document_status: update_one on {"_id": ObjectId(document_id)}; a
\* query that matches no record changes nothing
_update_document_status(store, document_id, status, stage, stage_description, progress_current, progress_total, error, completed_at, failed_at) ==
    IF document_id \in DOMAIN store
    THEN [store EXCEPT ![document_id] =
            StatusFields(@, status, stage, stage_description, progress_current,
                         progress_total, error, completed_at, failed_at)]
    ELSE store

\* _update_document_content
_update_document_content(store, document_id, raw_content, stage, stage_description) ==
    IF document_id \in DOMAIN store
    THEN [store EXCEPT ![document_id] = ContentFields(@, raw_content, stage,
                                                          stage_description)]
    ELSE store

\* f"Creating embeddings for {len(video_chunks)} video chunks"
EmbeddingDescription(n) == "Creating embeddings for " \o ToStr(n) \o " video chunks"

\* f"Successfully processed {total_chunks} chunks"
CompletedDescription(total_chunks) ==
    "Successfully processed " \o ToStr(total_chunks) \o " chunks"

\* datetime.utcnow() of a completion or failure update
Now == "utcnow"

(* ------------------------ extraction results -------------------------- *)
\* one scene chunk of a video bundle, as the orchestrator reads it
SceneChunk(i, video_name, keyframe) ==
    [chunk_id |-> "scene_" \o ToStr(i),
     video_id |-> "vid",
     video_name |-> video_name,
     clip_start |-> ToStr(i),
     clip_end |-> ToStr(i + 1),
     duration |-> "1",
     key_frame_timestamp |-> ToStr(i),
     blended_text |-> "scene text",
     keyframe_file_key |-> IF keyframe THEN "kf" \o ToStr(i) ELSE None]

NoRaw == [type |-> None, text |-> None, chunks |-> <<>>, n_pre |-> 0, n_chunks |-> 0]

\* the values extract_raw_data can return for a file: a video bundle
\* (dispatch on the extension) or plain text; in a bundle the scenes with an
\* even index carry an extracted key frame, the others none
ExtractResults(file_name) ==
    IF get_file_extension(file_name) = ".mp4"
    THEN {[type |-> "video", text |-> t,
           chunks |-> [i \in 1..n |-> SceneChunk(i - 1, file_name, (i - 1) % 2 = 0)],
           n_pre |-> 0, n_chunks |-> 0] :
            t \in {"", "transcript"}, n \in 0..MaxScenes}
    ELSE {[type |-> "text", text |-> t, chunks |-> <<>>, n_pre |-> np, n_chunks |-> nc] :
            t \in {"", " ", "text"}, np \in 1..MaxPreChunks, nc \in 1..MaxChunks}

\* utils.file_utils.validate_extracted_content: empty or whitespace-only
\* content is invalid
validate_extracted_content(content) == content \notin {"", " "}

(* ------------------------ chunk metadata and ids ---------------------- *)
\* the metadata dict built for one scene chunk (video path)
VideoMetadata(document_id, file_name, folder_name, file_key, user_id, chunk, additional_metadata) ==
    LET metadata ==
          Merge([document_id |-> document_id,
                 file_name |-> file_name,
                 folder_name |-> folder_name,
                 file_key |-> file_key,
                 user_id |-> user_id,
                 video_id |-> chunk.video_id,
                 video_name |-> chunk.video_name,
                 clip_start |-> chunk.clip_start,
                 clip_end |-> chunk.clip_end,
                 duration |-> chunk.duration,
                 key_frame_timestamp |-> chunk.key_frame_timestamp,
                 scene_id |-> chunk.chunk_id],
                additional_metadata)
    IN  IF chunk.keyframe_file_key # None
        THEN Merge(metadata, "keyframe_file_key" :> chunk.keyframe_file_key)
        ELSE metadata

\* base_metadata of the non-video path
BaseMetadata(document_id, file_name, folder_name, file_key, user_id, additional_metadata) ==
    Merge([document_id |-> document_id,
           file_name |-> file_name,
           folder_name |-> folder_name,
           file_key |-> file_key,
           user_id |-> user_id],
          additional_metadata)

\* clients.chunker_client.prepare_content_for_vectorization: one document
\* per pre-chunk; a pre-split content carries pre_chunk_index, a content
\* under the token ceiling is passed on with the metadata as given
prepare_content_for_vectorization(content, metadata, n_pre) ==
    [k \in 1..n_pre |->
        [content |-> content,
         metadata |-> IF n_pre > 1
                      THEN Merge(metadata, "pre_chunk_index" :> ToStr(k - 1))
                      ELSE metadata]]

\* chunker_client.chunk_with_metadata: every chunk inherits base_metadata
\* and adds its own index
chunk_with_metadata(text, base_metadata, n_chunks) ==
    [i \in 1..n_chunks |->
        [text |-> text,
         metadata |-> Merge(base_metadata, "chunk_index" :> ToStr(i - 1))]]

\* mutant: the pre-chunk index is not read, every pre-chunk counts as 0
PreChunkIndex_zero(pre_chunk_metadata) == "0"

\* pre_chunk_metadata.get("pre_chunk_index", 0), formatted into the id
PreChunkIndex(pre_chunk_metadata) ==
    IF "pre_chunk_index" \in DOMAIN pre_chunk_metadata
    THEN pre_chunk_metadata["pre_chunk_index"]
    ELSE "0"

\* f"{document_id}_pre{pre_chunk_index}_chunk{i}"
ChunkId(document_id, pre_chunk_index, i) ==
    document_id \o "_pre" \o pre_chunk_index \o "_chunk" \o ToStr(i)

\* f"{document_id}_{chunk['chunk_id']}"
SceneVectorId(document_id, chunk) == document_id \o "_" \o chunk.chunk_id

\* the namespace an upsert lands in: the payload carries one only when the
\* argument is truthy, otherwise the index's default namespace ""
Namespace(namespace) == IF namespace # None THEN namespace ELSE ""

\* mutant: the ids of the caller are not used, the store numbers the
\* vectors itself
add_documents_autoids(store, metadatas, ids, namespace) ==
    LET n == Cardinality(DOMAIN store)
        auto(i) == "auto" \o ToStr(((n + i) \div 10) % 10) \o ToStr((n + i) % 10)
    IN  [k \in DOMAIN store \cup {<<Namespace(namespace), auto(i)>> : i \in DOMAIN ids} |->
            IF k \in DOMAIN store THEN store[k]
            ELSE metadatas[CHOOSE i \in DOMAIN ids : k = <<Namespace(namespace), auto(i)>>]]

\* PineconeClient.add_documents on a successful call: every (id, metadata)
\* pair is upserted under the namespace, replacing a vector of the same id
add_documents(store, metadatas, ids, namespace) ==
    LET keys == {<<Namespace(namespace), ids[i]>> : i \in DOMAIN ids}
        last(k) == CHOOSE i \in DOMAIN ids :
                      /\ <<Namespace(namespace), ids[i]>> = k
                      /\ \A j \in DOMAIN ids :
                            <<Namespace(namespace), ids[j]>> = k => j <= i
    IN  [k \in DOMAIN store \cup keys |->
            IF k \in keys THEN metadatas[last(k)] ELSE store[k]]

(* ------------------------ initial state ------------------------------- *)
EmptyStore == [k \in {} |-> None]

NoAudio == [file_size |-> 0, total_duration_ms |-> 0, responses |-> <<>>]

NoVideo == [total_frames |-> 0, fps |-> 1, cut_list |-> {}]

Threads == 1..NumThreads

\* the module video_scene_detector after import: no instance, both locks free
DetectorInit ==
    /\ instance = 0
    /\ class_lock = 0
    /\ global_detector = 0
    /\ client_lock = 0
    /\ initialized = FALSE
    /\ detection_lock = 0
    /\ lock_holder = <<>>
    /\ tpc = [t \in Threads |-> "idle"]
    /\ caller = [t \in Threads |-> None]
    /\ tlock = [t \in Threads |-> 0]

\* no audio or video file is being processed
MediaIdle ==
    /\ DetectorInit
    /\ audio = NoAudio
    /\ all_segments = <<>>
    /\ chunk_i = 0
    /\ calls = <<>>
    /\ video = NoVideo
    /\ scenes = <<>>
    /\ key_frames = <<>>
    /\ vidPc = "idle"

\* the arguments of an add_documents_sync call that has not been made
NoArgs == [texts |-> <<>>, metadatas |-> <<>>, ids |-> <<>>]

\* no add_documents_sync call is being followed batch by batch
BatchIdle ==
    /\ add_args = NoArgs
    /\ add_i = 0
    /\ embed_calls = <<>>
    /\ upserts = <<>>
    /\ all_doc_ids = <<>>
    /\ addPc = "idle"

\* the pipelines, stores and endpoints after construction, before a call
\* with the inputs c
ServiceIdle(c) ==
    /\ sem = Capacity
    /\ pc = [p \in Pipelines |-> "idle"]
    /\ call = c
    /\ file = [p \in Pipelines |-> None]
    /\ doc = [p \in Pipelines |-> None]
    /\ raw = [p \in Pipelines |-> NoRaw]
    /\ pre = [p \in Pipelines |-> 0]
    /\ total = [p \in Pipelines |-> 0]
    /\ exc = [p \in Pipelines |-> None]
    /\ outcome = [p \in Pipelines |-> "none"]
    /\ docs = EmptyStore
    /\ objects = {}
    /\ vectors = EmptyStore
    /\ stageLog = [p \in Pipelines |-> <<>>]
    /\ raising = 0
    /\ cancelled = 0
    /\ reqPc = "idle"
    /\ nfiles = 0
    /\ documents_data = <<>>
    /\ mainQueue = <<>>
    /\ task_info = <<>>
    /\ workerQueue = <<>>
    /\ delPc = "idle"
    /\ documents = <<>>
    /\ deleted_docs = <<>>
    /\ errors = <<>>

\* the service after construction, before a call with the inputs c
ServiceInit(c) ==
    /\ ServiceIdle(c)
    /\ BatchIdle

Init ==
    /\ \E c \in CallInputs : ServiceInit(c)
    /\ MediaIdle

(* ------------------------ the governor -------------------------------- *)
\* asyncio.Semaphore.locked(): no slot is free
locked(value) == value = 0

\* the slot count after `async with` has entered
acquire(value) == value - 1

\* the slot count after `async with` has exited
release(value) == value + 1

\* pipeline p is inside `async with _global_ingestion_semaphore`
HoldsSlot(p) == p \in IngestPipelines /\ pc[p] \notin {"idle", "waiting", "done"}

(* ------------------------ pipeline steps ------------------------------ *)
FileKeyOf(p) == FileKey(call.organization_id, FolderName, file[p])

Log(p, stage) == stageLog' = [stageLog EXCEPT ![p] = Append(@, stage)]

\* mutant: the slot is given back on the success path only
Finish_leak(p, how) ==
    /\ pc' = [pc EXCEPT ![p] = "done"]
    /\ outcome' = [outcome EXCEPT ![p] = how]
    /\ sem' = IF HoldsSlot(p) /\ how = "success" THEN release(sem) ELSE sem
    /\ raw' = IF how = "success" THEN raw ELSE [raw EXCEPT ![p] = NoRaw]
    /\ pre' = [pre EXCEPT ![p] = 0]

\* mutant: leaving `async with` gives no slot back
Finish_keep(p, how) ==
    /\ pc' = [pc EXCEPT ![p] = "done"]
    /\ outcome' = [outcome EXCEPT ![p] = how]
    /\ sem' = sem
    /\ raw' = IF how = "success" THEN raw ELSE [raw EXCEPT ![p] = NoRaw]
    /\ pre' = [pre EXCEPT ![p] = 0]

\* the coroutine of p ends: process_file_with_error_handling returns its
\* dict (or the exception leaves a direct call), and `async with` exits
Finish(p, how) ==
    /\ pc' = [pc EXCEPT ![p] = "done"]
    /\ outcome' = [outcome EXCEPT ![p] = how]
    /\ sem' = IF HoldsSlot(p) THEN release(sem) ELSE sem
    /\ raw' = IF how = "success" THEN raw ELSE [raw EXCEPT ![p] = NoRaw]
    /\ pre' = [pre EXCEPT ![p] = 0]

\* an exception raised inside the try block: control goes to the handler
Raise(p, message) ==
    /\ raising < MaxRaising
    /\ raising' = raising + 1
    /\ pc' = [pc EXCEPT ![p] = "failed"]
    /\ exc' = [exc EXCEPT ![p] = message]
    /\ raw' = [raw EXCEPT ![p] = NoRaw]
    /\ pre' = [pre EXCEPT ![p] = 0]
    /\ UNCHANGED <<sem, outcome>>

Goto(p, next) ==
    /\ pc' = [pc EXCEPT ![p] = next]
    /\ UNCHANGED <<sem, outcome, exc, raising>>

\* asyncio.gather creates the task of a file; tasks are created in list order
Start(p) ==
    /\ p \in IngestPipelines
    /\ pc[p] = "idle"
    /\ \A q \in IngestPipelines : q < p => pc[q] # "idle"
    /\ file' = [file EXCEPT ![p] = FileOf(p)]
    /\ Goto(p, "waiting")
    /\ UNCHANGED <<call, doc, raw, pre, total, docs, objects, vectors, stageLog, cancelled>>

\* mutant: the slot is taken without waiting for a free one
Acquire_unguarded(p) ==
    /\ pc[p] = "waiting"
    /\ sem' = acquire(sem)
    /\ pc' = [pc EXCEPT ![p] = "read"]
    /\ UNCHANGED <<call, file, doc, raw, pre, total, exc, outcome, docs, objects,
                   vectors, stageLog, raising, cancelled>>

\* `async with IngestionService._global_ingestion_semaphore` is entered
Acquire(p) ==
    /\ pc[p] = "waiting"
    /\ ~locked(sem)
    /\ sem' = acquire(sem)
    /\ pc' = [pc EXCEPT ![p] = "read"]
    /\ UNCHANGED <<call, file, doc, raw, pre, total, exc, outcome, docs, objects,
                   vectors, stageLog, raising, cancelled>>

\* a direct call of _process_single_document_with_existing_id for a record
\* that no running pipeline works on; the calls are numbered in call order
StartRerun(p) ==
    /\ p \in RerunPipelines
    /\ pc[p] = "idle"
    /\ \A q \in RerunPipelines : q < p => pc[q] # "idle"
    /\ \E d \in DOMAIN docs :
          /\ \A q \in Pipelines : doc[q] = d => pc[q] = "done"
          /\ doc' = [doc EXCEPT ![p] = d]
          /\ file' = [file EXCEPT ![p] = docs[d].file_name]
    /\ Goto(p, "read")
    /\ UNCHANGED <<call, raw, pre, total, docs, objects, vectors, stageLog, cancelled>>

\* await file.read(); the storage key is computed
ReadFile(p) ==
    /\ pc[p] = "read"
    /\ Goto(p, IF p \in IngestPipelines THEN "create" ELSE "stage")
    /\ UNCHANGED <<call, file, doc, raw, pre, total, docs, objects, vectors, stageLog, cancelled>>

\* STEP 0 of _process_single_document: _create_document_with_status
CreateDocument(p) ==
    /\ pc[p] = "create"
    /\ LET id == NewDocumentId(p)
           rec == NewDocument(file[p], FolderName, FileKeyOf(p), call.user_id,
                              call.organization_id)
       IN  /\ docs' = [k \in DOMAIN docs \cup {id} |-> IF k = id THEN rec ELSE docs[k]]
           /\ doc' = [doc EXCEPT ![p] = id]
    /\ Log(p, "initializing")
    /\ Goto(p, "stage")
    /\ UNCHANGED <<call, file, raw, pre, total, objects, vectors, cancelled>>

\* _update_document_status(stage="uploading_extracting")
StageUploadingExtracting(p) ==
    /\ pc[p] = "stage"
    /\ docs' = _update_document_status(docs, doc[p], None, "uploading_extracting",
                                       "Uploading to storage and extracting content",
                                       NoCount, NoCount, None, None, None)
    /\ Log(p, "uploading_extracting")
    /\ Goto(p, "upload")
    /\ UNCHANGED <<call, file, doc, raw, pre, total, objects, vectors, cancelled>>

\* idrivee2_client.upload_file: the object is stored, or the call raises
Upload(p) ==
    /\ pc[p] = "upload"
    /\ \/ /\ objects' = objects \cup {FileKeyOf(p)}
          /\ Goto(p, "extract")
          /\ UNCHANGED <<raw, pre>>
       \/ /\ Raise(p, "upload failed")
          /\ UNCHANGED objects
    /\ UNCHANGED <<call, file, doc, total, docs, vectors, stageLog, cancelled>>

\* mutant: the extracted content is passed on without validation
Extract_unvalidated(p) ==
    /\ pc[p] = "extract"
    /\ \/ Raise(p, "extraction failed")
       \/ \E r \in ExtractResults(file[p]) :
             /\ raw' = [raw EXCEPT ![p] = r]
             /\ Goto(p, "content")
             /\ UNCHANGED pre
    /\ UNCHANGED <<call, file, doc, total, docs, objects, vectors, stageLog, cancelled>>

\* extract_raw_data and the validation of its result
Extract(p) ==
    /\ pc[p] = "extract"
    /\ \/ Raise(p, "extraction failed")
       \/ \E r \in ExtractResults(file[p]) :
             IF r.type = "video"
             THEN IF r.text = "" \/ Len(r.chunks) = 0
                  THEN Raise(p, "Video processing failed for: " \o file[p])
                  ELSE /\ raw' = [raw EXCEPT ![p] = r]
                       /\ Goto(p, "content")
                       /\ UNCHANGED pre
             ELSE IF ~validate_extracted_content(r.text)
                  THEN Raise(p, "Extracted content is invalid or empty for: " \o file[p])
                  ELSE /\ raw' = [raw EXCEPT ![p] = r]
                       /\ Goto(p, "content")
                       /\ UNCHANGED pre
    /\ UNCHANGED <<call, file, doc, total, docs, objects, vectors, stageLog, cancelled>>

\* mutant: after the content update the run goes straight to the completed
\* update, without chunking and upserting
UpdateContent_skips(p) ==
    /\ pc[p] = "content"
    /\ docs' = _update_document_content(docs, doc[p], raw[p].text, "content_extracted",
                                        "Content extraction completed")
    /\ Log(p, "content_extracted")
    /\ total' = [total EXCEPT ![p] = 0]
    /\ Goto(p, "complete")
    /\ UNCHANGED <<call, file, doc, raw, pre, objects, vectors, cancelled>>

\* Step 3: _update_document_content(stage="content_extracted")
UpdateContent(p) ==
    /\ pc[p] = "content"
    /\ docs' = _update_document_content(docs, doc[p], raw[p].text, "content_extracted",
                                        "Content extraction completed")
    /\ Log(p, "content_extracted")
    /\ total' = [total EXCEPT ![p] = 0]
    /\ Goto(p, IF raw[p].type = "video" THEN "embedding" ELSE "upsert")
    /\ UNCHANGED <<call, file, doc, raw, pre, objects, vectors, cancelled>>

\* video path: _update_document_status(stage="embedding", progress_total=...)
StageEmbedding(p) ==
    /\ pc[p] = "embedding"
    /\ docs' = _update_document_status(docs, doc[p], None, "embedding",
                                       EmbeddingDescription(Len(raw[p].chunks)),
                                       0, Len(raw[p].chunks), None, None, None)
    /\ Log(p, "embedding")
    /\ Goto(p, "upsert")
    /\ UNCHANGED <<call, file, doc, raw, pre, total, objects, vectors, cancelled>>

\* mutant: the scene texts are sent through the chunker like a text
UpsertVideo_chunked(p) ==
    /\ pc[p] = "upsert"
    /\ raw[p].type = "video"
    /\ LET base_metadata == BaseMetadata(doc[p], file[p], FolderName, FileKeyOf(p),
                                         call.user_id, call.additional_metadata)
           chunks == chunk_with_metadata(raw[p].text, base_metadata, Len(raw[p].chunks))
           metadatas == [i \in DOMAIN chunks |-> chunks[i].metadata]
           ids == [i \in DOMAIN chunks |-> ChunkId(doc[p], "0", i - 1)]
       IN  \/ /\ vectors' = add_documents(vectors, metadatas, ids, call.organization_id)
              /\ total' = [total EXCEPT ![p] = Len(chunks)]
              /\ Goto(p, "complete")
              /\ UNCHANGED <<raw, pre>>
           \/ /\ Raise(p, "Failed to add documents: upsert failed")
              /\ UNCHANGED <<vectors, total>>
    /\ UNCHANGED <<call, file, doc, docs, objects, stageLog, cancelled>>

\* video path: the scene chunks go to the vector store in one add_documents
UpsertVideo(p) ==
    /\ pc[p] = "upsert"
    /\ raw[p].type = "video"
    /\ LET chunks == raw[p].chunks
           metadatas == [i \in DOMAIN chunks |->
                           VideoMetadata(doc[p], file[p], FolderName, FileKeyOf(p),
                                         call.user_id, chunks[i],
                                         call.additional_metadata)]
           ids == [i \in DOMAIN chunks |-> SceneVectorId(doc[p], chunks[i])]
       IN  \/ /\ vectors' = add_documents(vectors, metadatas, ids, call.organization_id)
              /\ total' = [total EXCEPT ![p] = Len(chunks)]
              /\ Goto(p, "complete")
              /\ UNCHANGED <<raw, pre>>
           \/ /\ Raise(p, "Failed to add documents: upsert failed")
              /\ UNCHANGED <<vectors, total>>
    /\ UNCHANGED <<call, file, doc, docs, objects, stageLog, cancelled>>

\* mutant: the loop takes the prepared documents from the last to the first
UpsertPreChunk_reversed(p) ==
    /\ pc[p] = "upsert"
    /\ raw[p].type = "text"
    /\ LET base_metadata == BaseMetadata(doc[p], file[p], FolderName, FileKeyOf(p),
                                         call.user_id, call.additional_metadata)
           prepared == prepare_content_for_vectorization(raw[p].text, base_metadata,
                                                         raw[p].n_pre)
           pre_chunk_doc == prepared[raw[p].n_pre - pre[p]]
           chunks == chunk_with_metadata(pre_chunk_doc.content, pre_chunk_doc.metadata,
                                         raw[p].n_chunks)
           metadatas == [i \in DOMAIN chunks |-> chunks[i].metadata]
           ids == [i \in DOMAIN chunks |->
                      ChunkId(doc[p], PreChunkIndex(pre_chunk_doc.metadata), i - 1)]
       IN  \/ /\ vectors' = add_documents(vectors, metadatas, ids, call.organization_id)
              /\ total' = [total EXCEPT ![p] = @ + Len(chunks)]
              /\ pre' = [pre EXCEPT ![p] = @ + 1]
              /\ Goto(p, IF pre[p] + 1 = raw[p].n_pre THEN "complete" ELSE "upsert")
              /\ UNCHANGED raw
           \/ /\ Raise(p, "chunking failed")
              /\ UNCHANGED <<vectors, total>>
           \/ /\ Raise(p, "Failed to add documents: upsert failed")
              /\ UNCHANGED <<vectors, total>>
    /\ UNCHANGED <<call, file, doc, docs, objects, stageLog, cancelled>>

\* non-video path: one iteration of the loop over prepared_documents
UpsertPreChunk(p) ==
    /\ pc[p] = "upsert"
    /\ raw[p].type = "text"
    /\ LET base_metadata == BaseMetadata(doc[p], file[p], FolderName, FileKeyOf(p),
                                         call.user_id, call.additional_metadata)
           prepared == prepare_content_for_vectorization(raw[p].text, base_metadata,
                                                         raw[p].n_pre)
           pre_chunk_doc == prepared[pre[p] + 1]
           chunks == chunk_with_metadata(pre_chunk_doc.content, pre_chunk_doc.metadata,
                                         raw[p].n_chunks)
           metadatas == [i \in DOMAIN chunks |-> chunks[i].metadata]
           ids == [i \in DOMAIN chunks |->
                      ChunkId(doc[p], PreChunkIndex(pre_chunk_doc.metadata), i - 1)]
       IN  \/ /\ vectors' = add_documents(vectors, metadatas, ids, call.organization_id)
              /\ total' = [total EXCEPT ![p] = @ + Len(chunks)]
              /\ pre' = [pre EXCEPT ![p] = @ + 1]
              /\ Goto(p, IF pre[p] + 1 = raw[p].n_pre THEN "complete" ELSE "upsert")
              /\ UNCHANGED raw
           \/ /\ Raise(p, "chunking failed")
              /\ UNCHANGED <<vectors, total>>
           \/ /\ Raise(p, "Failed to add documents: upsert failed")
              /\ UNCHANGED <<vectors, total>>
    /\ UNCHANGED <<call, file, doc, docs, objects, stageLog, cancelled>>

\* _update_document_status(status="completed", stage="completed",
\* completed_at=utcnow()), then the result is returned
MarkCompleted(p) ==
    /\ pc[p] = "complete"
    /\ docs' = _update_document_status(docs, doc[p], "completed", "completed",
                                       CompletedDescription(total[p]),
                                       NoCount, NoCount, None, Now, None)
    /\ Log(p, "completed")
    /\ Finish(p, "success")
    /\ UNCHANGED <<call, file, doc, total, exc, objects, vectors, cancelled, raising>>

\* mutant: the except block re-raises without recording the failure
MarkFailed_unrecorded(p) ==
    /\ pc[p] = "failed"
    /\ Finish(p, IF p \in IngestPipelines THEN "error" ELSE "raised")
    /\ UNCHANGED <<call, file, doc, total, exc, docs, objects, vectors, stageLog,
                   cancelled, raising>>

\* the except block: the failure is recorded and the exception re-raised;
\* process_file_with_error_handling turns it into an error dict
MarkFailed(p) ==
    /\ pc[p] = "failed"
    /\ docs' = _update_document_status(docs, doc[p], "failed", "failed",
                                       "Processing failed: " \o exc[p],
                                       NoCount, NoCount, exc[p], None, Now)
    /\ Log(p, "failed")
    /\ Finish(p, IF p \in IngestPipelines THEN "error" ELSE "raised")
    /\ UNCHANGED <<call, file, doc, total, exc, objects, vectors, cancelled, raising>>

\* the task of p is cancelled at an await: CancelledError is no Exception,
\* so neither except block runs; finally and `async with` still do
Cancel(p) ==
    /\ p \in IngestPipelines
    /\ pc[p] \notin {"idle", "done"}
    /\ cancelled < MaxCancelled
    /\ cancelled' = cancelled + 1
    /\ Finish(p, "cancelled")
    /\ UNCHANGED <<call, file, doc, total, exc, docs, objects, vectors, stageLog, raising>>

(* ------------------------ upload endpoint and Celery tasks ------------ *)
\* the ObjectId string of the i-th record the endpoint inserts
UploadDocumentId(i) == "u" \o ToStr(i)

\* the entry upload_documents (and ingest_youtube_video) appends to
\* documents_data; content_b64 carries no behaviour and is left out
DocData(document_id, filename) ==
    [document_id |-> document_id,
     filename |-> filename,
     content_type |-> IF get_file_extension(filename) = ".mp4"
                      THEN "video/mp4" ELSE "application/pdf"]

\* POST /upload/documents with n files (n = 1 also stands for /upload/youtube,
\* which pre-creates one record and dispatches the same task)
UploadRequest ==
    /\ reqPc = "idle"
    /\ \E n \in 1..MaxFiles : nfiles' = n
    /\ reqPc' = "creating"
    /\ UNCHANGED <<documents_data, mainQueue, task_info, workerQueue, docs>>
    /\ UNCHANGED pipeVars

\* one iteration of the loop over files: the record is inserted with
\* status="processing" and its entry appended
UploadCreate ==
    /\ reqPc = "creating"
    /\ Len(documents_data) < nfiles
    /\ LET i == Len(documents_data) + 1
           id == UploadDocumentId(i)
           rec == NewDocument(FileOf(i), FolderName,
                              FileKey(call.organization_id, FolderName, FileOf(i)),
                              call.user_id, call.organization_id)
       IN  /\ docs' = [k \in DOMAIN docs \cup {id} |-> IF k = id THEN rec ELSE docs[k]]
           /\ documents_data' = Append(documents_data, DocData(id, FileOf(i)))
    /\ UNCHANGED <<reqPc, nfiles, mainQueue, task_info, workerQueue>>
    /\ UNCHANGED pipeVars

\* file.read() or the insert of a record raises: the endpoint answers 500
\* and nothing is dispatched
UploadCreateRaises ==
    /\ reqPc = "creating"
    /\ Len(documents_data) < nfiles
    /\ reqPc' = "error"
    /\ UNCHANGED <<nfiles, documents_data, mainQueue, task_info, workerQueue, docs>>
    /\ UNCHANGED pipeVars

\* process_document_ids_task.delay(documents_data=...)
UploadDispatch ==
    /\ reqPc = "creating"
    /\ Len(documents_data) = nfiles
    /\ mainQueue' = documents_data
    /\ reqPc' = "dispatched"
    /\ UNCHANGED <<nfiles, documents_data, task_info, workerQueue, docs>>
    /\ UNCHANGED pipeVars

\* the endpoint returns the document ids
UploadReturn ==
    /\ reqPc = "dispatched"
    /\ reqPc' = "returned"
    /\ UNCHANGED <<nfiles, documents_data, mainQueue, task_info, workerQueue, docs>>
    /\ UNCHANGED pipeVars

\* one iteration of process_document_ids_task: the arguments of
\* process_single_document_task.delay are read from doc_data inside the
\* try; a missing key raises KeyError, which the except turns into a
\* task_info entry of status "error"
process_document_ids_task ==
    /\ mainQueue # <<>>
    /\ LET doc_data == Head(mainQueue)
       IN  IF {"document_id", "file_key", "filename", "content_type"}
                \subseteq DOMAIN doc_data
           THEN /\ workerQueue' = Append(workerQueue, doc_data)
                /\ task_info' = Append(task_info,
                      [document_id |-> doc_data.document_id, status |-> "queued"])
           ELSE /\ workerQueue' = workerQueue
                /\ task_info' = Append(task_info,
                      [document_id |-> doc_data.document_id, status |-> "error"])
    /\ mainQueue' = Tail(mainQueue)
    /\ UNCHANGED <<reqPc, nfiles, documents_data, docs>>
    /\ UNCHANGED pipeVars

\* process_single_document_task: IngestionService defines no
\* process_single_document_sync, so the call raises AttributeError inside the
\* try and the task returns status "error"; the record is not touched.
\* No payload of the endpoints reaches this task (see above).
process_single_document_task ==
    /\ workerQueue # <<>>
    /\ workerQueue' = Tail(workerQueue)
    /\ UNCHANGED <<reqPc, nfiles, documents_data, mainQueue, task_info, docs>>
    /\ UNCHANGED pipeVars

(* ------------------------ document-store failures --------------------- *)
\* _create_document_with_status raises: no record is inserted and, being
\* outside the try block, the exception goes straight to the caller
CreateDocumentRaises(p) ==
    /\ pc[p] = "create"
    /\ raising < MaxRaising
    /\ exc' = [exc EXCEPT ![p] = "insert failed"]
    /\ Finish(p, "error")
    /\ raising' = raising + 1
    /\ UNCHANGED <<call, file, doc, total, docs, objects, vectors, stageLog, cancelled>>

\* the update of a stage, of the content or of the completion raises
UpdateRaises(p) ==
    /\ pc[p] \in {"stage", "content", "embedding", "complete"}
    /\ Raise(p, "update failed")
    /\ UNCHANGED <<call, file, doc, total, docs, objects, vectors, stageLog, cancelled>>

\* the update inside the except block raises: nothing is recorded and the
\* new exception leaves the handler (exc keeps the message of the exception
\* the try block raised)
MarkFailedRaises(p) ==
    /\ pc[p] = "failed"
    /\ exc' = exc
    /\ Finish(p, IF p \in IngestPipelines THEN "error" ELSE "raised")
    /\ raising' = raising
    /\ UNCHANGED <<call, file, doc, total, docs, objects, vectors, stageLog, cancelled>>

(* ------------------------ deletion ------------------------------------ *)
\* idrivee2_client.delete_file: the object of the key is removed
delete_file(objs, object_name) == objs \ {object_name}

\* PineconeClient.delete_documents(filter={"document_id": ...}, namespace):
\* the vectors of the namespace whose metadata matches the filter are removed
delete_documents(store, document_id, namespace) ==
    [k \in {kk \in DOMAIN store :
               ~(kk[1] = Namespace(namespace) /\ store[kk].document_id = document_id)}
        |-> store[k]]

\* delete_document(document_id) up to its return or its exception: the
\* storage object and the chunks are deleted, a failure of either is logged
\* and swallowed, then the record is deleted; a failure of that last call
\* (fault = "record") and a record that is not found leave as an exception
DeleteDocumentBody(document_id, fault) ==
    /\ fault # "none" => raising < MaxRaising
    /\ raising' = IF fault # "none" THEN raising + 1 ELSE raising
    /\ IF document_id \notin DOMAIN docs
       THEN /\ fault = "none"
            /\ UNCHANGED <<objects, vectors, docs>>
       ELSE LET document == docs[document_id]
                organization_id == document.organization_id
            IN  /\ objects' = IF fault = "storage" THEN objects
                               ELSE delete_file(objects, document.file_key)
                /\ vectors' = IF fault = "vectors" THEN vectors
                               ELSE delete_documents(vectors, document_id, organization_id)
                /\ docs' = IF fault = "record" THEN docs
                            ELSE [k \in DOMAIN docs \ {document_id} |-> docs[k]]

\* whether that call ends by an exception
DeleteDocumentRaises(document_id, fault) ==
    document_id \notin DOMAIN docs \/ fault = "record"

DeleteFaults == {"none", "storage", "vectors", "record"}

\* a call of delete_document(document_id) for a record that exists, with
\* every call of it succeeding
delete_document(document_id) ==
    /\ document_id \in DOMAIN docs
    /\ DeleteDocumentBody(document_id, "none")
    /\ UNCHANGED <<sem, pc, call, file, doc, raw, pre, total, exc, outcome,
                   stageLog, cancelled>>
    /\ UNCHANGED uploadVars
    /\ UNCHANGED deleteVars

\* the records a delete_folder query matches, in insertion order
FolderDocuments(folder_name, organization_id) ==
    LET match(p) ==
          /\ NewDocumentId(p) \in DOMAIN docs
          /\ docs[NewDocumentId(p)].folder_name = folder_name
          /\ organization_id # None =>
                docs[NewDocumentId(p)].organization_id = ObjectId(organization_id)
        F[n \in 0..NumIngest] ==
          IF n = 0 THEN <<>>
          ELSE IF match(n)
               THEN Append(F[n - 1], [id |-> NewDocumentId(n),
                                      file_key |-> docs[NewDocumentId(n)].file_key])
               ELSE F[n - 1]
    IN  F[NumIngest]

\* delete_folder(folder_name, organization_id=...): the query; an empty
\* result returns at once
DeleteFolderFind ==
    /\ delPc = "idle"
    /\ \E organization_id \in {None, "5f1a"} :
          /\ documents' = FolderDocuments(FolderName, organization_id)
          /\ delPc' = IF documents' = <<>> THEN "returned" ELSE "deleting"
    /\ UNCHANGED <<deleted_docs, errors, docs>>
    /\ UNCHANGED pipeVars
    /\ UNCHANGED uploadVars

\* one iteration of the loop of delete_folder
DeleteFolderStep ==
    /\ delPc = "deleting"
    /\ Len(deleted_docs) + Len(errors) < Len(documents)
    /\ LET doc_id == documents[Len(deleted_docs) + Len(errors) + 1].id
       IN  \E fault \in DeleteFaults :
              /\ DeleteDocumentBody(doc_id, fault)
              /\ IF DeleteDocumentRaises(doc_id, fault)
                 THEN /\ errors' = Append(errors, doc_id)
                      /\ UNCHANGED deleted_docs
                 ELSE /\ deleted_docs' = Append(deleted_docs, doc_id)
                      /\ UNCHANGED errors
    /\ UNCHANGED <<delPc, documents>>
    /\ UNCHANGED <<sem, pc, call, file, doc, raw, pre, total, exc, outcome,
                   stageLog, cancelled>>
    /\ UNCHANGED uploadVars

\* delete_folder returns its counts
DeleteFolderReturn ==
    /\ delPc = "deleting"
    /\ Len(deleted_docs) + Len(errors) = Len(documents)
    /\ delPc' = "returned"
    /\ UNCHANGED <<documents, deleted_docs, errors, docs>>
    /\ UNCHANGED pipeVars
    /\ UNCHANGED uploadVars

\* a further call of ingest_documents, by the same user for another owner,
\* once the tasks of the call before have ended
ingest_documents ==
    /\ \A p \in IngestPipelines : pc[p] \in {"idle", "done"}
    /\ \E p \in IngestPipelines : pc[p] = "done"
    /\ \E c \in CallInputs :
          /\ c.organization_id # call.organization_id
          /\ c.user_id = call.user_id
          /\ c.additional_metadata = call.additional_metadata
          /\ call' = c
    /\ UNCHANGED <<sem, pc, file, doc, raw, pre, total, exc, outcome, docs,
                   objects, vectors, stageLog, raising, cancelled>>
    /\ UNCHANGED uploadVars
    /\ UNCHANGED deleteVars

(* ------------------------ audio transcription ------------------------- *)
\* chunk_duration_ms = 10 * 60 * 1000; all times below are in milliseconds
chunk_duration_ms == 600000

\* str.strip() on the texts of the model
strip(text) == IF text = " hi " THEN "hi" ELSE text

\* what the transcription backend can return for one window: the segments
\* of the verbose_json answer (none for a window without speech) and the
\* full text
Responses ==
    LET a == [start |-> 0, end |-> 2500, text |-> " hi "]
        b == [start |-> 2500, end |-> 4000, text |-> "ok"]
    IN  {[segments |-> ss, text |-> t] :
            ss \in {<<>>, <<a>>, <<a, b>>}, t \in {" hi ok"}}
        \cup {[segments |-> <<b, a>>, text |-> "ok hi "]}

\* len(range(0, total_duration_ms, chunk_duration_ms))
NumWindows(total_duration_ms) ==
    (total_duration_ms + chunk_duration_ms - 1) \div chunk_duration_ms

\* the size limit of a direct transcription, in the unit of file_size_mb
max_file_size_mb == 20

\* file_size_mb <= 20 for a file of file_size bytes, file_size_mb being
\* len(file_content) / (1024 * 1024)
IsSmallFile(file_size) == file_size <= max_file_size_mb * (1024 * 1024)

\* len(file_content) of the small files of the model: a tiny file and one
\* of exactly 20 MB
SmallFileSizes == {1, max_file_size_mb * (1024 * 1024)}

\* len(file_content) of the files of the model that are chunked
LargeFileSize == max_file_size_mb * (1024 * 1024) + 1

\* the durations of the model: one, ..., MaxWindows windows, the last
\* window a full one or a shorter one
Durations ==
    {chunk_duration_ms * k : k \in 1..(MaxWindows - 1)}
    \cup {chunk_duration_ms * (MaxWindows - 1) + 1}

\* the large audio files of the model
AudioInputs ==
    UNION {{[file_size |-> LargeFileSize, total_duration_ms |-> t, responses |-> r] :
               r \in [1..NumWindows(t) -> Responses]} : t \in Durations}

\* the small audio files of the model, of the same durations; the backend
\* answers once for the whole file
SmallAudioInputs ==
    {[file_size |-> n, total_duration_ms |-> t, responses |-> <<r>>] :
        n \in SmallFileSizes, t \in Durations, r \in Responses}

\* mutant: every window ends a full chunk_duration_ms after its start
SplitAudio_full(start_ms, total_duration_ms) ==
    [i \in 1..NumWindows(total_duration_ms - start_ms) |->
        [start_time |-> start_ms + (i - 1) * chunk_duration_ms,
         end_time |-> start_ms + i * chunk_duration_ms]]

RECURSIVE SplitAudio(_, _)
\* the loop that builds chunks: for start_ms in range(start_ms,
\* total_duration_ms, chunk_duration_ms), with end_ms = min(start_ms +
\* chunk_duration_ms, total_duration_ms); start_time and end_time are held in
\* milliseconds
SplitAudio(start_ms, total_duration_ms) ==
    IF start_ms >= total_duration_ms THEN <<>>
    ELSE LET end_ms == IF start_ms + chunk_duration_ms < total_duration_ms
                       THEN start_ms + chunk_duration_ms
                       ELSE total_duration_ms
         IN  <<[start_time |-> start_ms, end_time |-> end_ms]>>
             \o SplitAudio(start_ms + chunk_duration_ms, total_duration_ms)

\* _transcribe_single_file on the answer of the backend: the segments with
\* their text stripped, or one segment at 0.0 holding the full text when the
\* answer has no segments
_transcribe_single_file(transcription) ==
    IF transcription.segments # <<>>
    THEN [j \in DOMAIN transcription.segments |->
            [start |-> transcription.segments[j].start,
             end |-> transcription.segments[j].end,
             text |-> strip(transcription.segments[j].text)]]
    ELSE <<[start |-> 0, end |-> 0, text |-> transcription.text]>>

\* mutant: the window's offset is not added
OffsetSegment_none(seg, time_offset) == seg

\* seg['start'] += time_offset; seg['end'] += time_offset
OffsetSegment(seg, time_offset) ==
    [seg EXCEPT !.start = @ + time_offset, !.end = @ + time_offset]

\* transcribe_audio_with_timestamps on a file of at most 20 MB: the whole
\* file goes to the backend in one _transcribe_single_file
TranscribeWhole ==
    /\ audio # NoAudio
    /\ IsSmallFile(audio.file_size)
    /\ calls = <<>>
    /\ all_segments' = _transcribe_single_file(audio.responses[1])
    /\ calls' = <<[start_time |-> 0, end_time |-> audio.total_duration_ms]>>
    /\ UNCHANGED <<audio, chunk_i>>
    /\ UNCHANGED videoVars
    /\ UNCHANGED serviceVars

\* one iteration of the loop of _transcribe_chunked_file over the windows
TranscribeChunk ==
    /\ ~IsSmallFile(audio.file_size)
    /\ chunk_i < Len(SplitAudio(0, audio.total_duration_ms))
    /\ LET i == chunk_i + 1
           chunk_data == SplitAudio(0, audio.total_duration_ms)[i]
           chunk_segments == _transcribe_single_file(audio.responses[i])
           time_offset == chunk_data.start_time
       IN  /\ all_segments' = all_segments \o
                  [j \in DOMAIN chunk_segments |->
                      OffsetSegment(chunk_segments[j], time_offset)]
           /\ calls' = Append(calls, chunk_data)
           /\ chunk_i' = i
    /\ UNCHANGED audio
    /\ UNCHANGED videoVars
    /\ UNCHANGED serviceVars

(* ------------------------ video scenes and key frames ---------------- *)
\* FrameTimecode.get_seconds(): frames / fps, held in milliseconds
get_seconds(frames, fps) == (frames * 1000) \div fps

\* the videos of the model: their length in frames at 25 fps and the frames
\* at which the content detector reports a cut
VideoInputs ==
    UNION {{[total_frames |-> n, fps |-> 25, cut_list |-> c] :
               c \in SUBSET (1..(n - 1))} : n \in 1..MaxFrames}

RECURSIVE SortedSeq(_)
\* the numbers of S in increasing order
SortedSeq(S) ==
    IF S = {} THEN <<>>
    ELSE LET m == CHOOSE x \in S : \A y \in S : x <= y
         IN  <<m>> \o SortedSeq(S \ {m})

\* SceneManager.get_scene_list() with its default start_in_scene=False: the
\* scenes between the cuts, from the first to the last frame position; when
\* no cut was detected the list is empty
get_scene_list(v) ==
    IF v.cut_list = {} THEN <<>>
    ELSE LET marks == SortedSeq({0} \cup v.cut_list \cup {v.total_frames})
         IN  [i \in 1..(Len(marks) - 1) |-> <<marks[i], marks[i + 1]>>]

\* the scene dict built from a (start_time, end_time) pair of timecodes
SceneDict(i, start_frames, end_frames, fps) ==
    [scene_id |-> i,
     start_frame |-> start_frames,
     end_frame |-> end_frames,
     start_time |-> get_seconds(start_frames, fps),
     end_time |-> get_seconds(end_frames, fps),
     num_frames |-> end_frames - start_frames]

\* detect_scenes_from_video: the scene list of the detector, converted
detect_scenes_from_video ==
    /\ vidPc = "detect"
    /\ LET scene_list == get_scene_list(video)
       IN  scenes' = [i \in DOMAIN scene_list |->
                        SceneDict(i - 1, scene_list[i][1], scene_list[i][2], video.fps)]
    /\ vidPc' = "select"
    /\ UNCHANGED <<video, key_frames>>
    /\ UNCHANGED detectorVars
    /\ UNCHANGED audioVars
    /\ UNCHANGED serviceVars

\* scene lists handed to the key-frame selection directly: scenes of several
\* lengths, one of a single frame position, and frames 100..200 at 4.0..8.0 s
SceneLists ==
    LET shapes == {[start_frame |-> f, end_frame |-> e,
                    start_time |-> 0, end_time |-> 1000] :
                      f \in {0, 3}, e \in {3, 4, 6}}
                  \cup {[start_frame |-> 100, end_frame |-> 200,
                         start_time |-> 4000, end_time |-> 8000]}
    IN  UNION {{[i \in 1..n |->
                   [scene_id |-> i - 1,
                    start_frame |-> l[i].start_frame,
                    end_frame |-> l[i].end_frame,
                    start_time |-> l[i].start_time,
                    end_time |-> l[i].end_time,
                    num_frames |-> l[i].end_frame - l[i].start_frame]] :
                  l \in [1..n -> shapes]} : n \in 1..MaxSceneList}

\* middle_frame_num = (scene['start_frame'] + scene['end_frame']) // 2
MiddleFrame(scene) == (scene.start_frame + scene.end_frame) \div 2

\* mutant: the quotient is formed for a scene of no frames as well
Timestamp_unguarded(scene, middle_frame_num) ==
    [num |-> scene.start_time * (scene.end_frame - scene.start_frame)
               + (middle_frame_num - scene.start_frame)
                   * (scene.end_time - scene.start_time),
     den |-> scene.end_frame - scene.start_frame]

\* the timestamp of the key frame, as the exact fraction num / den of
\* start_time + (frame_offset / scene_frames) * scene_duration, and
\* start_time itself when scene_frames is not positive
Timestamp(scene, middle_frame_num) ==
    LET scene_duration == scene.end_time - scene.start_time
        scene_frames == scene.end_frame - scene.start_frame
        frame_offset == middle_frame_num - scene.start_frame
    IN  IF scene_frames > 0
        THEN [num |-> scene.start_time * scene_frames + frame_offset * scene_duration,
              den |-> scene_frames]
        ELSE [num |-> scene.start_time, den |-> 1]

\* the key-frame dict of a scene (the entropy carries no behaviour)
KeyFrame(scene) ==
    [frame_number |-> MiddleFrame(scene),
     timestamp |-> Timestamp(scene, MiddleFrame(scene)),
     scene_id |-> scene.scene_id,
     scene_start |-> scene.start_time,
     scene_end |-> scene.end_time]

\* select_key_frames_from_cache: one key frame per scene
select_key_frames_from_cache ==
    /\ vidPc = "select"
    /\ key_frames' = [i \in DOMAIN scenes |-> KeyFrame(scenes[i])]
    /\ vidPc' = "cache_done"
    /\ UNCHANGED <<video, scenes>>
    /\ UNCHANGED detectorVars
    /\ UNCHANGED audioVars
    /\ UNCHANGED serviceVars

\* select_key_frames_from_video: a key frame for every scene whose middle
\* frame cap.read() returns; the other scenes are skipped with a warning
select_key_frames_from_video ==
    /\ vidPc = "select"
    /\ \E readable \in SUBSET DOMAIN scenes :
          key_frames' = SelectSeq([i \in DOMAIN scenes |-> KeyFrame(scenes[i])],
                                  LAMBDA kf : kf.scene_id + 1 \in readable)
    /\ vidPc' = "video_done"
    /\ UNCHANGED <<video, scenes>>
    /\ UNCHANGED detectorVars
    /\ UNCHANGED audioVars
    /\ UNCHANGED serviceVars

(* ------------------------ add_documents_sync, batch by batch ----------- *)
\* batch_size of add_documents_sync
batch_size == 25

\* the calls of the model: n parallel texts, metadatas and ids, the ids
\* distinct, as both paths of the pipeline build them; text, metadata and id
\* of the j-th chunk are each written j
AddInputs ==
    {[texts |-> [j \in 1..n |-> j], metadatas |-> [j \in 1..n |-> j],
      ids |-> [j \in 1..n |-> j]] : n \in 0..MaxItems}

\* mutant: a slice takes one element more
PySlice_long(seq, i, j) ==
    SubSeq(seq, i + 1, IF j + 1 < Len(seq) THEN j + 1 ELSE Len(seq))

\* the Python slice seq[i:j] for 0 <= i <= j
PySlice(seq, i, j) == SubSeq(seq, i + 1, IF j < Len(seq) THEN j ELSE Len(seq))

\* `if not ids`: ids are made up when none are given
EffectiveIds(args) ==
    IF args.ids = <<>> THEN [j \in DOMAIN args.texts |-> 0 - j] ELSE args.ids

\* client.embeddings.create for the batch at i returns, or raises
AddEmbed ==
    /\ addPc = "loop"
    /\ add_i < Len(add_args.texts)
    /\ LET batch_texts == PySlice(add_args.texts, add_i, add_i + batch_size)
       IN  \/ /\ embed_calls' = Append(embed_calls, batch_texts)
              /\ addPc' = "upsert"
           \/ /\ addPc' = "raised"
              /\ UNCHANGED embed_calls
    /\ UNCHANGED <<add_args, add_i, upserts, all_doc_ids>>

\* the vectors of the batch are built and posted to /vectors/upsert; the
\* request succeeds, or raises and upserts nothing
AddUpsert ==
    /\ addPc = "upsert"
    /\ LET batch_texts == PySlice(add_args.texts, add_i, add_i + batch_size)
           batch_metadatas == PySlice(add_args.metadatas, add_i, add_i + batch_size)
           batch_ids == PySlice(EffectiveIds(add_args), add_i, add_i + batch_size)
           n == IF Len(batch_ids) < Len(batch_texts) THEN Len(batch_ids)
                ELSE Len(batch_texts)
           batch_vectors == [k \in 1..n |-> [id |-> batch_ids[k],
                                             text |-> batch_texts[k],
                                             metadata |-> batch_metadatas[k]]]
       IN  \/ /\ upserts' = Append(upserts, batch_vectors)
              /\ all_doc_ids' = all_doc_ids \o batch_ids
              /\ add_i' = add_i + batch_size
              /\ addPc' = "loop"
           \/ /\ addPc' = "raised"
              /\ UNCHANGED <<upserts, all_doc_ids, add_i>>
    /\ UNCHANGED <<add_args, embed_calls>>

\* the loop is over: all_doc_ids is returned
AddReturn ==
    /\ addPc = "loop"
    /\ add_i >= Len(add_args.texts)
    /\ addPc' = "returned"
    /\ UNCHANGED <<add_args, add_i, embed_calls, upserts, all_doc_ids>>

(* ------------------------ the detector singleton and its lock --------- *)
\* a thread asks for the detector, by VideoSceneDetector() or by
\* get_video_scene_detector()
Call(t) ==
    /\ tpc[t] = "idle"
    /\ \E via \in {"VideoSceneDetector", "get_video_scene_detector"} :
          /\ caller' = [caller EXCEPT ![t] = via]
          /\ tpc' = [tpc EXCEPT ![t] = IF via = "get_video_scene_detector"
                                       THEN "get_check" ELSE "new_check"]
    /\ UNCHANGED <<instance, class_lock, global_detector, client_lock, initialized,
                   detection_lock, lock_holder, tlock>>

\* get_video_scene_detector: `if _video_scene_detector is None`
GetCheck(t) ==
    /\ tpc[t] = "get_check"
    /\ tpc' = [tpc EXCEPT ![t] = IF global_detector = 0 THEN "get_lock" ELSE "use"]
    /\ UNCHANGED <<instance, class_lock, global_detector, client_lock, initialized,
                   detection_lock, lock_holder, caller, tlock>>

\* `with _client_lock` is entered
GetLock(t) ==
    /\ tpc[t] = "get_lock"
    /\ client_lock = 0
    /\ client_lock' = t
    /\ tpc' = [tpc EXCEPT ![t] = "get_recheck"]
    /\ UNCHANGED <<instance, class_lock, global_detector, initialized,
                   detection_lock, lock_holder, caller, tlock>>

\* the second `if _video_scene_detector is None`, under the lock: the
\* constructor is called, or the lock is left
GetRecheck(t) ==
    /\ tpc[t] = "get_recheck"
    /\ IF global_detector = 0
       THEN /\ tpc' = [tpc EXCEPT ![t] = "new_check"]
            /\ UNCHANGED client_lock
       ELSE /\ tpc' = [tpc EXCEPT ![t] = "use"]
            /\ client_lock' = 0
    /\ UNCHANGED <<instance, class_lock, global_detector, initialized,
                   detection_lock, lock_holder, caller, tlock>>

\* `_video_scene_detector = VideoSceneDetector()` once the constructor has
\* returned; `with _client_lock` is left
GetAssign(t) ==
    /\ tpc[t] = "get_assign"
    /\ global_detector' = 1
    /\ client_lock' = 0
    /\ tpc' = [tpc EXCEPT ![t] = "use"]
    /\ UNCHANGED <<instance, class_lock, initialized, detection_lock, lock_holder,
                   caller, tlock>>

\* __new__: `if cls._instance is None`
NewCheck(t) ==
    /\ tpc[t] = "new_check"
    /\ tpc' = [tpc EXCEPT ![t] = IF instance = 0 THEN "new_lock" ELSE "init_check"]
    /\ UNCHANGED <<instance, class_lock, global_detector, client_lock, initialized,
                   detection_lock, lock_holder, caller, tlock>>

\* __new__: `with cls._lock` is entered
NewLock(t) ==
    /\ tpc[t] = "new_lock"
    /\ class_lock = 0
    /\ class_lock' = t
    /\ tpc' = [tpc EXCEPT ![t] = "new_recheck"]
    /\ UNCHANGED <<instance, global_detector, client_lock, initialized,
                   detection_lock, lock_holder, caller, tlock>>

\* __new__: the second check under the lock, the instance is created when
\* there is none, the lock is left and cls._instance returned
NewRecheck(t) ==
    /\ tpc[t] = "new_recheck"
    /\ instance' = 1
    /\ class_lock' = 0
    /\ tpc' = [tpc EXCEPT ![t] = "init_check"]
    /\ UNCHANGED <<global_detector, client_lock, initialized, detection_lock,
                   lock_holder, caller, tlock>>

\* where a thread goes on when its constructor call has returned
AfterInit(t) == IF caller[t] = "get_video_scene_detector" THEN "get_assign" ELSE "use"

\* __init__: `if not hasattr(self, '_initialized')`
InitCheck(t) ==
    /\ tpc[t] = "init_check"
    /\ tpc' = [tpc EXCEPT ![t] = IF ~initialized THEN "init_lock" ELSE AfterInit(t)]
    /\ UNCHANGED <<instance, class_lock, global_detector, client_lock, initialized,
                   detection_lock, lock_holder, caller, tlock>>

\* __init__: `self._detection_lock = threading.Lock()`, a new Lock object
InitLock(t) ==
    /\ tpc[t] = "init_lock"
    /\ lock_holder' = Append(lock_holder, 0)
    /\ detection_lock' = Len(lock_holder) + 1
    /\ tpc' = [tpc EXCEPT ![t] = "init_flag"]
    /\ UNCHANGED <<instance, class_lock, global_detector, client_lock, initialized,
                   caller, tlock>>

\* __init__: `self._initialized = True`, and the constructor returns
InitFlag(t) ==
    /\ tpc[t] = "init_flag"
    /\ initialized' = TRUE
    /\ tpc' = [tpc EXCEPT ![t] = AfterInit(t)]
    /\ UNCHANGED <<instance, class_lock, global_detector, client_lock,
                   detection_lock, lock_holder, caller, tlock>>

\* detect_scenes_from_video or select_key_frames_from_video is called on the
\* detector: `with self._detection_lock` reads the attribute and acquires
\* the Lock object it refers to
EnterDetection(t) ==
    /\ tpc[t] = "use"
    /\ lock_holder[detection_lock] = 0
    /\ \E method \in {"detect_scenes_from_video", "select_key_frames_from_video"} :
          tpc' = [tpc EXCEPT ![t] = method]
    /\ lock_holder' = [lock_holder EXCEPT ![detection_lock] = t]
    /\ tlock' = [tlock EXCEPT ![t] = detection_lock]
    /\ UNCHANGED <<instance, class_lock, global_detector, client_lock, initialized,
                   detection_lock, caller>>

\* the method returns: `with` releases the Lock object it had acquired
LeaveDetection(t) ==
    /\ tpc[t] \in {"detect_scenes_from_video", "select_key_frames_from_video"}
    /\ lock_holder' = [lock_holder EXCEPT ![tlock[t]] = 0]
    /\ tlock' = [tlock EXCEPT ![t] = 0]
    /\ tpc' = [tpc EXCEPT ![t] = "done"]
    /\ UNCHANGED <<instance, class_lock, global_detector, client_lock, initialized,
                   detection_lock, caller>>

(* ------------------------ the result of ingest_documents -------------- *)
\* mutant: the wrapper reports success whatever the pipeline did
FileResult_success(p) ==
    [success |-> TRUE,
     result |-> [document_id |-> doc[p], file_name |-> file[p], total_chunks |-> total[p]],
     error |-> exc[p],
     filename |-> file[p]]

\* what process_file_with_error_handling returns for the file of p
FileResult(p) ==
    [success |-> outcome[p] = "success",
     result |-> [document_id |-> doc[p], file_name |-> file[p], total_chunks |-> total[p]],
     error |-> exc[p],
     filename |-> file[p]]

\* gather has returned: every task has returned its dict; a cancelled task
\* returns none and ends the call without a result
Gathered ==
    \A p \in IngestPipelines : pc[p] = "done" /\ outcome[p] \in {"success", "error"}

\* file_results of gather, in the order of the files
file_results == [p \in 1..NumIngest |-> FileResult(p)]

\* the results dict before the loop over file_results
NewResults(folder_name, n_files) ==
    [folder_name |-> folder_name,
     total_files |-> n_files,
     successful_files |-> 0,
     failed_files |-> 0,
     documents |-> <<>>,
     errors |-> <<>>,
     statistics |-> [total_chunks |-> 0]]

\* one iteration of the aggregation loop
AddResult(results, file_result) ==
    IF file_result.success
    THEN [results EXCEPT
            !.successful_files = @ + 1,
            !.documents = Append(@, file_result.result),
            !.statistics.total_chunks = @ + file_result.result.total_chunks]
    ELSE [results EXCEPT
            !.failed_files = @ + 1,
            !.errors = Append(@, [file_name |-> file_result.filename,
                                  error |-> file_result.error])]

RECURSIVE Aggregate(_, _)
\* the aggregation loop over the first n entries of frs
Aggregate(frs, n) ==
    IF n = 0 THEN NewResults(FolderName, Len(frs))
    ELSE AddResult(Aggregate(frs, n - 1), frs[n])

\* the dict ingest_documents returns
IngestResults == Aggregate(file_results, Len(file_results))

(* ------------------------ specifications ------------------------------ *)
\* the steps a pipeline takes by itself
Run(p) ==
    \/ Acquire(p)
    \/ ReadFile(p)
    \/ CreateDocument(p)
    \/ StageUploadingExtracting(p)
    \/ Upload(p)
    \/ Extract(p)
    \/ UpdateContent(p)
    \/ StageEmbedding(p)
    \/ UpsertVideo(p)
    \/ UpsertPreChunk(p)
    \/ MarkCompleted(p)
    \/ MarkFailed(p)

\* a step of the pipeline, or its cancellation from outside
Step(p) == Run(p) \/ Cancel(p)

\* batches of ingest_documents under the governor; upload, extraction,
\* chunking and vector upserts may raise
Next ==
    /\ \E p \in Pipelines : Start(p) \/ Step(p)
    /\ UNCHANGED uploadVars
    /\ UNCHANGED deleteVars
    /\ UNCHANGED batchVars
    /\ UNCHANGED audioVars
    /\ UNCHANGED videoVars

Spec == Init /\ [][Next]_vars

\* one call of ingest_documents by one owner
LiveCall == [user_id |-> "u1", organization_id |-> "5f1a", additional_metadata |-> EmptyDict]

InitLive ==
    /\ ServiceInit(LiveCall)
    /\ MediaIdle

\* the event loop runs every task that is ready: gather creates each task,
\* a task whose awaited call has returned or raised is resumed, and a
\* released slot wakes a waiter; cancellation is never forced
Task(p) ==
    /\ Start(p) \/ Run(p)
    /\ UNCHANGED uploadVars
    /\ UNCHANGED deleteVars
    /\ UNCHANGED batchVars
    /\ UNCHANGED audioVars
    /\ UNCHANGED videoVars

\* every awaited call returns or raises; no task is cancelled
NextLive == \E p \in IngestPipelines : Task(p)

SpecLive ==
    /\ InitLive
    /\ [][NextLive]_vars
    /\ \A p \in IngestPipelines : WF_vars(Task(p))

\* the life of single documents: DocRuns first runs through
\* ingest_documents, later runs of the same document id, and a document
\* store whose calls may raise as well
DocRuns == 1

NextDoc ==
    /\ \E p \in Pipelines :
          \/ p <= DocRuns /\ Start(p)
          \/ StartRerun(p)
          \/ Step(p)
          \/ CreateDocumentRaises(p)
          \/ UpdateRaises(p)
          \/ MarkFailedRaises(p)
    /\ UNCHANGED uploadVars
    /\ UNCHANGED deleteVars
    /\ UNCHANGED batchVars
    /\ UNCHANGED audioVars
    /\ UNCHANGED videoVars

SpecDoc == Init /\ [][NextDoc]_vars

\* a request to the upload endpoint and the Celery tasks it dispatches,
\* next to DocRuns pipelines of ingest_documents on the same stores
NextUpload ==
    /\ \/ UploadRequest
       \/ UploadCreate
       \/ UploadCreateRaises
       \/ UploadDispatch
       \/ UploadReturn
       \/ process_document_ids_task
       \/ /\ \E p \in Pipelines : (p <= DocRuns /\ Start(p)) \/ Step(p)
          /\ UNCHANGED uploadVars
    /\ UNCHANGED deleteVars
    /\ UNCHANGED batchVars
    /\ UNCHANGED audioVars
    /\ UNCHANGED videoVars

SpecUpload == Init /\ [][NextUpload]_vars

\* documents of DeleteRuns pipelines, ingested by calls for different
\* owners, and the deletion of single documents and of the folder
DeleteRuns == 2

\* no task of ingest_documents is in flight
Quiet == \A p \in Pipelines : pc[p] \in {"idle", "done"}

\* one file per call of ingest_documents; the folder is deleted while no
\* ingestion is in flight, and none is started while it is being deleted
NextDelete ==
    /\ \/ /\ \E p \in Pipelines :
                \/ p <= DeleteRuns /\ Quiet /\ delPc # "deleting" /\ Start(p)
                \/ Step(p)
          /\ UNCHANGED uploadVars
          /\ UNCHANGED deleteVars
       \/ ingest_documents
       \/ Quiet /\ DeleteFolderFind
       \/ DeleteFolderStep
       \/ DeleteFolderReturn
    /\ UNCHANGED batchVars
    /\ UNCHANGED audioVars
    /\ UNCHANGED videoVars

SpecDelete == Init /\ [][NextDelete]_vars

\* a call of ingest_documents with DeleteRuns files, and calls of
\* delete_document for their records at any moment
NextRace ==
    /\ \/ /\ \E p \in Pipelines : (p <= DeleteRuns /\ Start(p)) \/ Step(p)
          /\ UNCHANGED uploadVars
          /\ UNCHANGED deleteVars
       \/ \E d \in DocIds : delete_document(d)
    /\ UNCHANGED batchVars
    /\ UNCHANGED audioVars
    /\ UNCHANGED videoVars

SpecRace == InitLive /\ [][NextRace]_vars

\* the inputs of a service no call has reached
IdleCall == [user_id |-> None, organization_id |-> None, additional_metadata |-> EmptyDict]

\* one add_documents_sync call on every input of the model, followed batch
\* by batch
InitBatch ==
    /\ ServiceIdle(IdleCall)
    /\ MediaIdle
    /\ add_args \in AddInputs
    /\ add_i = 0
    /\ embed_calls = <<>>
    /\ upserts = <<>>
    /\ all_doc_ids = <<>>
    /\ addPc = "loop"

NextBatch ==
    /\ AddEmbed \/ AddUpsert \/ AddReturn
    /\ UNCHANGED <<sem, pc, call, file, doc, raw, pre, total, exc, outcome,
                   docs, objects, vectors, stageLog, raising, cancelled>>
    /\ UNCHANGED uploadVars
    /\ UNCHANGED deleteVars
    /\ UNCHANGED audioVars
    /\ UNCHANGED videoVars

SpecBatch == InitBatch /\ [][NextBatch]_vars

\* _transcribe_chunked_file on every audio file of the model
InitAudio ==
    /\ ServiceInit(IdleCall)
    /\ audio \in AudioInputs
    /\ all_segments = <<>>
    /\ chunk_i = 0
    /\ calls = <<>>
    /\ video = NoVideo
    /\ scenes = <<>>
    /\ key_frames = <<>>
    /\ vidPc = "idle"
    /\ DetectorInit

NextAudio == TranscribeChunk

SpecAudio == InitAudio /\ [][NextAudio]_vars

\* transcribe_audio_with_timestamps on every audio file of the model,
\* small or large
InitTranscribe ==
    /\ ServiceInit(IdleCall)
    /\ audio \in AudioInputs \cup SmallAudioInputs
    /\ all_segments = <<>>
    /\ chunk_i = 0
    /\ calls = <<>>
    /\ video = NoVideo
    /\ scenes = <<>>
    /\ key_frames = <<>>
    /\ vidPc = "idle"
    /\ DetectorInit

NextTranscribe == TranscribeWhole \/ TranscribeChunk

SpecTranscribe == InitTranscribe /\ [][NextTranscribe]_vars

\* scene detection on every video of the model followed by a key-frame
\* selection, and the key-frame selections on given scene lists
InitVideo ==
    /\ ServiceInit(IdleCall)
    /\ DetectorInit
    /\ audio = NoAudio
    /\ all_segments = <<>>
    /\ chunk_i = 0
    /\ calls = <<>>
    /\ key_frames = <<>>
    /\ \/ /\ vidPc = "detect"
          /\ video \in VideoInputs
          /\ scenes = <<>>
       \/ /\ vidPc = "select"
          /\ video = NoVideo
          /\ scenes \in SceneLists

NextVideo ==
    \/ detect_scenes_from_video
    \/ select_key_frames_from_cache
    \/ select_key_frames_from_video

SpecVideo == InitVideo /\ [][NextVideo]_vars

\* NumThreads threads of one process that obtain the detector and call one
\* of its two locked methods; a thread may be preempted between any two
\* of its steps
NextDetector ==
    /\ \E t \in Threads :
          \/ Call(t)
          \/ GetCheck(t)
          \/ GetLock(t)
          \/ GetRecheck(t)
          \/ GetAssign(t)
          \/ NewCheck(t)
          \/ NewLock(t)
          \/ NewRecheck(t)
          \/ InitCheck(t)
          \/ InitLock(t)
          \/ InitFlag(t)
          \/ EnterDetection(t)
          \/ LeaveDetection(t)
    /\ UNCHANGED <<video, scenes, key_frames, vidPc>>
    /\ UNCHANGED audioVars
    /\ UNCHANGED serviceVars

InitDetector ==
    /\ ServiceInit(IdleCall)
    /\ MediaIdle

SpecDetector == InitDetector /\ [][NextDetector]_vars

(* ======================== claims ===================================== *)
Holders == {p \in IngestPipelines : HoldsSlot(p)}

\* C1: with the global semaphore of capacity N, at most N pipelines are
\* between acquiring and releasing a slot, however many were started
C1_GovernorBound == Cardinality(Holders) <= Capacity

\* C1 witness: all N slots are taken while a further pipeline waits
C1_Witness ==
    /\ Cardinality(Holders) = Capacity
    /\ \E p \in IngestPipelines : pc[p] = "waiting"

\* C2: every slot taken is given back exactly once on every exit path, so
\* the free slots are always N minus the pipelines inside, and N again
\* whenever no pipeline is in flight
C2_SlotsConserved ==
    /\ sem = Capacity - Cardinality(Holders)
    /\ (\A p \in IngestPipelines : pc[p] \in {"idle", "done"}) => sem = Capacity

\* C2 witness: pipelines have left through the success, the exception and
\* the cancellation path, none is in flight
C2_Witness ==
    /\ \A p \in IngestPipelines : pc[p] = "done"
    /\ \E p \in IngestPipelines : outcome[p] = "success"
    /\ \E p \in IngestPipelines : outcome[p] = "error"
    /\ \E p \in IngestPipelines : outcome[p] = "cancelled" /\ stageLog[p] # <<>>

\* the records the endpoint has created so far
Created == {documents_data[i].document_id : i \in DOMAIN documents_data}

IsProcessing(id) == id \in DOMAIN docs /\ docs[id].status = "processing"

C4_RecordBeforeSlotRequest ==
    \A p \in IngestPipelines :
        pc[p] = "waiting" => NewDocumentId(p) \in DOMAIN docs

\* C5 (as claimed, as the final result): once the request is over and the
\* Celery queues are drained, no record the endpoint created is left in
\* status processing
C5_CreatedDocumentsSettle ==
    (reqPc \in {"returned", "error"} /\ mainQueue = <<>> /\ workerQueue = <<>>) =>
        \A id \in Created : docs[id].status \in {"completed", "failed"}

LastStage(p) == IF stageLog[p] = <<>> THEN None ELSE stageLog[p][Len(stageLog[p])]

\* a later run works on the document of run p
Superseded(p) == \E q \in Pipelines : q > p /\ doc[q] = doc[p]

FailureRecorded(p) ==
    /\ docs[doc[p]].status = "failed"
    /\ docs[doc[p]].processing_stage = "failed"
    /\ docs[doc[p]].error = exc[p]
    /\ docs[doc[p]].failed_at # None

\* a run that ended by an exception raised after its record existed
EndedRaising(p) ==
    /\ pc[p] = "done"
    /\ outcome[p] \in {"error", "raised"}
    /\ doc[p] # None
    /\ ~Superseded(p)

StageRank(stage) ==
    CASE stage = "initializing" -> 1
      [] stage = "uploading_extracting" -> 2
      [] stage = "content_extracted" -> 3
      [] stage = "embedding" -> 4
      [] stage = "completed" -> 5
      [] stage = "failed" -> 6

\* C8 (as claimed): the stages a run records only move forward, and a run
\* that completes has recorded all four processing stages in order
C8_StagesInOrder ==
    \A p \in IngestPipelines :
        /\ \A i, j \in DOMAIN stageLog[p] :
              i < j => StageRank(stageLog[p][i]) < StageRank(stageLog[p][j])
        /\ outcome[p] = "success" => stageLog[p] = Stages

\* C9 (as claimed): once a record is failed, no step changes its status or
\* its processing_stage
C9_FailedAbsorbing ==
    [][\A d \in DOMAIN docs :
          docs[d].status = "failed" =>
             /\ docs'[d].status = "failed"
             /\ docs'[d].processing_stage = docs[d].processing_stage]_vars

\* C10 (as claimed): no metadata map in the vector store has a null value
C10_NoNullMetadata ==
    \A k \in DOMAIN vectors :
        \A key \in DOMAIN vectors[k] : vectors[k][key] # None

\* the vector ids the id scheme can give to chunks of document d: those of
\* the pre-chunks and chunks of a text and those of the scenes of a video
VectorIdsOf(d) ==
    {ChunkId(d, ToStr(j), i) : j \in 0..(MaxPreChunks - 1), i \in 0..(MaxChunks - 1)}
    \cup {SceneVectorId(d, SceneChunk(i, "", FALSE)) : i \in 0..(MaxScenes - 1)}

\* the runs whose chunks carry the id of document d
RunsOf(d) == {p \in Pipelines : doc[p] = d}

\* C11 (as claimed): the metadata of every chunk upserted for a document
\* carries that document's id under document_id, whatever additional_metadata
\* the caller gave
C11_MetadataDocumentId ==
    \A p \in IngestPipelines :
        doc[p] # None =>
            \A k \in DOMAIN vectors :
                k[2] \in VectorIdsOf(doc[p]) => vectors[k].document_id = doc[p]

RECURSIVE SumTotal(_)
\* total_chunks of the runs in S together
SumTotal(S) ==
    IF S = {} THEN 0
    ELSE LET p == CHOOSE q \in S : TRUE IN total[p] + SumTotal(S \ {p})

ExpectedIds(d, r) ==
    IF r.type = "video"
    THEN {SceneVectorId(d, r.chunks[i]) : i \in DOMAIN r.chunks}
    ELSE {ChunkId(d, IF r.n_pre > 1 THEN ToStr(j) ELSE "0", i) :
             j \in 0..(r.n_pre - 1), i \in 0..(r.n_chunks - 1)}

\* the vector ids the store holds for document d
StoredIdsOf(d) ==
    {k[2] : k \in {kk \in DOMAIN vectors :
                      kk[2] \in VectorIdsOf(d) \/ vectors[kk].document_id = d}}

\* a later run p over the content of the first run q of the same document,
\* both completed
RanTwice(q, p) ==
    /\ q \in IngestPipelines /\ p \in RerunPipelines
    /\ doc[p] = doc[q] /\ doc[q] # None
    /\ outcome[q] = "success" /\ outcome[p] = "success"
    /\ raw[p] = raw[q]

\* C13: after two completed runs for one document id over the same content
\* the store holds for that document exactly the ids of a single run: as
\* many as one run's total_chunks, none added by the second run
C13_RerunIdempotent ==
    \A q \in IngestPipelines, p \in RerunPipelines :
        RanTwice(q, p) =>
            /\ StoredIdsOf(doc[q]) = ExpectedIds(doc[q], raw[q])
            /\ Cardinality(StoredIdsOf(doc[q])) = total[q]
            /\ total[p] = total[q]

\* C13 witness: a text of two pre-chunks of two chunks was run twice
C13_Witness ==
    \E q \in IngestPipelines, p \in RerunPipelines :
        /\ RanTwice(q, p)
        /\ raw[q].type = "text" /\ raw[q].n_pre = 2 /\ raw[q].n_chunks = 2

\* the chunks the store holds for document d, found by their ids or by the
\* document_id of their metadata
ChunkKeysOf(d) ==
    {k \in DOMAIN vectors : k[2] \in VectorIdsOf(d) \/ vectors[k].document_id = d}

\* C14 (as claimed): every chunk of a document lies in the namespace of the
\* organization identifier its record holds (the namespace delete_document
\* later deletes from), and chunks of documents of different owners never
\* lie in one namespace
C14_NamespaceIsOrganization ==
    /\ \A d \in DOMAIN docs :
          \A k \in DOMAIN vectors :
              k[2] \in VectorIdsOf(d) => k[1] = Namespace(docs[d].organization_id)
    /\ \A d1, d2 \in DOMAIN docs :
          docs[d1].organization_id # docs[d2].organization_id =>
              \A k1, k2 \in DOMAIN vectors :
                  (k1[2] \in VectorIdsOf(d1) /\ k2[2] \in VectorIdsOf(d2)) => k1[1] # k2[1]

\* nothing of a record delete_folder found is left in the object storage
\* or in the vector store
NothingLeftOf(document) ==
    /\ document.file_key \notin objects
    /\ ChunkKeysOf(document.id) = {}

\* C15 (as claimed): when delete_folder has returned, every record it found
\* in the folder is removed together with its storage object and its chunks,
\* and at no time is a record of the folder removed while its object or a
\* chunk of it remains
C15_FolderDeleted ==
    /\ delPc = "returned" =>
          \A i \in DOMAIN documents :
              /\ documents[i].id \notin DOMAIN docs
              /\ NothingLeftOf(documents[i])
    /\ \A i \in DOMAIN documents :
          documents[i].id \notin DOMAIN docs => NothingLeftOf(documents[i])

\* the number of segments the windows before window w have contributed
RECURSIVE SegmentsBefore(_)
SegmentsBefore(w) ==
    IF w <= 1 THEN 0
    ELSE SegmentsBefore(w - 1) + Len(audio.responses[w - 1].segments)

\* the transcript is complete
Transcribed == audio # NoAudio /\ chunk_i = NumWindows(audio.total_duration_ms)

\* C16 (as claimed): the complete transcript holds, window after window and
\* in returned order, exactly the segments the backend returned, each as
\* (a + s, b + s, t) for the start offset s of its window
C16_TranscriptReassembled ==
    Transcribed =>
        /\ Len(all_segments) = SegmentsBefore(NumWindows(audio.total_duration_ms) + 1)
        /\ \A w \in DOMAIN audio.responses :
              \A j \in DOMAIN audio.responses[w].segments :
                  LET seg == audio.responses[w].segments[j]
                      s == (w - 1) * chunk_duration_ms
                  IN  all_segments[SegmentsBefore(w) + j] =
                          [start |-> seg.start + s, end |-> seg.end + s, text |-> seg.text]

\* what window w contributes: its segments, or the one segment that stands
\* for an answer without segments
Contribution(w) ==
    IF audio.responses[w].segments # <<>>
    THEN audio.responses[w].segments
    ELSE <<[start |-> 0, end |-> 0, text |-> audio.responses[w].text]>>

RECURSIVE ContributedBefore(_)
ContributedBefore(w) ==
    IF w <= 1 THEN 0 ELSE ContributedBefore(w - 1) + Len(Contribution(w - 1))

\* C16 (amended): the transcript holds, window after window and in returned
\* order, every returned segment as (a + s, b + s, t stripped of surrounding
\* whitespace); a window whose answer has no segments contributes the single
\* segment (s, s, full text of the answer); it holds nothing else
C16_TranscriptReassembledStripped ==
    /\ Len(all_segments) = ContributedBefore(chunk_i + 1)
    /\ \A w \in 1..chunk_i :
          \A j \in DOMAIN Contribution(w) :
              LET seg == Contribution(w)[j]
                  s == (w - 1) * chunk_duration_ms
                  t == IF audio.responses[w].segments # <<>>
                       THEN strip(seg.text) ELSE seg.text
              IN  all_segments[ContributedBefore(w) + j] =
                      [start |-> seg.start + s, end |-> seg.end + s, text |-> t]

\* C16 witness: a file of three windows is transcribed, the second window
\* returned two segments and the third one none
C16_Witness ==
    /\ Transcribed
    /\ NumWindows(audio.total_duration_ms) = 3
    /\ Len(audio.responses[2].segments) = 2
    /\ audio.responses[3].segments = <<>>
    /\ \E n \in DOMAIN all_segments : all_segments[n].start = chunk_duration_ms + 2500

\* the key frame kf is the one the formula gives for scene sc
KeyFrameOf(kf, sc) ==
    LET f == sc.end_frame - sc.start_frame
    IN  /\ 2 * kf.frame_number <= sc.start_frame + sc.end_frame
        /\ sc.start_frame + sc.end_frame < 2 * kf.frame_number + 2
        /\ kf.timestamp.den > 0
        /\ IF f = 0
           THEN kf.timestamp.num = sc.start_time * kf.timestamp.den
           ELSE kf.timestamp.num * f =
                   kf.timestamp.den * (sc.start_time * f
                      + (kf.frame_number - sc.start_frame) * (sc.end_time - sc.start_time))
        /\ (sc.start_frame = 100 /\ sc.end_frame = 200
              /\ sc.start_time = 4000 /\ sc.end_time = 8000) =>
                 /\ kf.frame_number = 150
                 /\ kf.timestamp.num = 6000 * kf.timestamp.den

\* C17: every key frame either selection returns is frame
\* floor((start_frame + end_frame) / 2) of its scene, with the timestamp
\* start_time + (key_frame - start_frame) / (end_frame - start_frame)
\* * (end_time - start_time), and start_time without any division when
\* end_frame = start_frame; the selection from the cache returns one for
\* every scene
C17_KeyFrameFormula ==
    /\ \A n \in DOMAIN key_frames :
          KeyFrameOf(key_frames[n], scenes[key_frames[n].scene_id + 1])
    /\ vidPc = "cache_done" =>
          /\ Len(key_frames) = Len(scenes)
          /\ \A i \in DOMAIN scenes : key_frames[i].scene_id = scenes[i].scene_id

\* C17 witness: key frames of the scene of frames 100..200 and of a scene
\* with end_frame = start_frame were selected from the video
C17_Witness ==
    /\ vidPc = "video_done"
    /\ Len(key_frames) = 2
    /\ key_frames[1].frame_number = 150
    /\ scenes[2].start_frame = scenes[2].end_frame
    /\ key_frames[2].timestamp.num = scenes[2].start_time

\* C18 (as claimed): the scenes detect_scenes_from_video returns are at
\* least one, start at frame 0, end at total_frames, and each begins where
\* the one before ends
C18_ScenesCoverVideo ==
    (video # NoVideo /\ vidPc # "detect") =>
        /\ Len(scenes) >= 1
        /\ scenes[1].start_frame = 0
        /\ scenes[Len(scenes)].end_frame = video.total_frames
        /\ \A i \in DOMAIN scenes : scenes[i].start_frame < scenes[i].end_frame
        /\ \A i \in 1..(Len(scenes) - 1) :
              scenes[i].end_frame = scenes[i + 1].start_frame

\* the storage key the claim gives to the document id of a record
DocumentIdKey(id, rec) ==
    (IF rec.organization_id # None THEN rec.organization_id \o "/" ELSE "")
    \o rec.folder_name \o "/" \o id \o get_file_extension(rec.file_name)

\* C19 (as claimed): the storage key of every record is
\* {organization_id}/{folder_name}/{document_id}{extension}, and no two
\* records have the same storage key
C19_StorageKeyPerDocument ==
    /\ \A d \in DOMAIN docs : docs[d].file_key = DocumentIdKey(d, docs[d])
    /\ \A d1, d2 \in DOMAIN docs : d1 # d2 => docs[d1].file_key # docs[d2].file_key

\* the messages of the two validations of extracted content
EmptyContentErrors(file_name) ==
    {"Extracted content is invalid or empty for: " \o file_name,
     "Video processing failed for: " \o file_name}

\* content that must not be ingested: empty or whitespace-only text, a
\* bundle with an empty transcript or without scene chunks
IsEmptyContent(r) ==
    IF r.type = "video" THEN r.text = "" \/ Len(r.chunks) = 0
    ELSE r.text \in {"", " "}

AllReturned ==
    \A p \in IngestPipelines : pc[p] = "done" /\ outcome[p] # "none"

\* C21: a batch of NumIngest files under Capacity slots terminates: a
\* pipeline that waits for a slot takes no step while no slot is free, it
\* gets its slot eventually, and eventually every file of the batch has
\* its outcome
C21_BatchTerminates ==
    /\ [](\A p \in IngestPipelines :
            pc[p] = "waiting" /\ locked(sem) => ~ENABLED Task(p))
    /\ <>[]AllReturned

\* a batch larger than the capacity has ended, every slot is free again
C21_Witness ==
    /\ NumIngest > Capacity
    /\ AllReturned
    /\ sem = Capacity
    /\ \E p \in IngestPipelines : outcome[p] = "success"
    /\ \E p \in IngestPipelines : outcome[p] = "error"

\* the pipelines of ingest_documents that work on a non-video document
TextRuns ==
    {p \in IngestPipelines : doc[p] # None /\ get_file_extension(file[p]) # ".mp4"}

\* the ids of the first n pre-chunks of a content cut into n_pre pre-chunks
\* of n_chunks chunks, in the order of the loops
PrefixIds(d, n, n_pre, n_chunks) ==
    {ChunkId(d, IF n_pre > 1 THEN ToStr(j) ELSE "0", i) :
        j \in 0..(n - 1), i \in 0..(n_chunks - 1)}

\* C22: the chunks of a non-video document go to the vector store in
\* increasing pre-chunk index and, within a pre-chunk, in increasing chunk
\* index: while the loop runs the store holds exactly the chunks of the
\* pre-chunks before the current one, at every instant a stored chunk has
\* all chunks before it stored as well, and the chunks upserted before a
\* failure stay in the store (as many as total_chunks had counted)
C22_UpsertsArePrefix ==
    \A p \in TextRuns :
        LET d == doc[p]
            S == StoredIdsOf(d)
        IN  /\ Cardinality(S) = total[p]
            /\ pc[p] = "upsert" =>
                  S = PrefixIds(d, pre[p], raw[p].n_pre, raw[p].n_chunks)
            /\ \A j \in 0..(MaxPreChunks - 1), i \in 0..(MaxChunks - 1) :
                  ChunkId(d, ToStr(j), i) \in S =>
                     /\ \A i2 \in 0..i : ChunkId(d, ToStr(j), i2) \in S
                     /\ \A j2 \in 0..j :
                           {i2 \in 0..(MaxChunks - 1) : ChunkId(d, ToStr(j2), i2) \in S}
                             = {i2 \in 0..(MaxChunks - 1) : ChunkId(d, ToStr(j), i2) \in S}

\* C22 witness: the upsert of the second pre-chunk failed and the chunks of
\* the first pre-chunk are still in the store
C22_Witness ==
    \E p \in TextRuns :
        /\ outcome[p] = "error"
        /\ exc[p] = "Failed to add documents: upsert failed"
        /\ StoredIdsOf(doc[p]) = PrefixIds(doc[p], 1, 2, MaxChunks)

\* run p executes the update that sets status to completed and returns
Completes(p) ==
    /\ pc[p] = "complete"
    /\ pc'[p] = "done"
    /\ outcome'[p] = "success"

\* C23: the update that sets a Document to completed comes after its
\* content was persisted and after every upsert of the run has returned: at
\* that step the record holds the extracted content, completed_at is set,
\* every vector of the run is in the store, and the count in the stage
\* description and in the returned total_chunks is the number of chunks
\* the run upserted; no other step makes a Document completed
C23_CompletedAfterUpserts ==
    [][/\ \A p \in Pipelines :
              Completes(p) =>
                 LET d == doc[p]
                     ids == ExpectedIds(d, raw[p])
                 IN  /\ docs'[d].status = "completed"
                     /\ docs'[d].processing_stage = "completed"
                     /\ docs'[d].completed_at # None
                     /\ docs[d].raw_content = raw[p].text
                     /\ docs'[d].raw_content = raw[p].text
                     /\ ids \subseteq StoredIdsOf(d)
                     /\ vectors' = vectors
                     /\ total'[p] = Cardinality(ids)
                     /\ docs'[d].processing_stage_description
                           = CompletedDescription(Cardinality(ids))
       /\ \A d \in DOMAIN docs' :
              /\ docs'[d].status = "completed"
              /\ d \in DOMAIN docs => docs[d].status # "completed"
              => \E p \in Pipelines : doc[p] = d /\ Completes(p)
      ]_vars

\* C23 witness: a text of MaxPreChunks pre-chunks of MaxChunks chunks each
\* is completed with all its chunks counted
C23_Witness ==
    \E p \in IngestPipelines :
        /\ outcome[p] = "success"
        /\ raw[p].type = "text"
        /\ raw[p].n_pre = MaxPreChunks /\ raw[p].n_chunks = MaxChunks
        /\ docs[doc[p]].status = "completed"
        /\ docs[doc[p]].completed_at = Now
        /\ docs[doc[p]].processing_stage_description
              = CompletedDescription(MaxPreChunks * MaxChunks)
        /\ total[p] = MaxPreChunks * MaxChunks

\* the pipelines of ingest_documents that hold the bundle of a video
VideoRuns == {p \in IngestPipelines : raw[p].type = "video"}

\* the ids of the scene chunks of run p
SceneIds(p) == {SceneVectorId(doc[p], raw[p].chunks[i]) : i \in DOMAIN raw[p].chunks}

CompletedRuns ==
    {p \in IngestPipelines :
        doc[p] # None /\ doc[p] \in DOMAIN docs /\ docs[doc[p]].status = "completed"}

\* C27: the result of ingest_documents accounts for every file once: the
\* successful and the failed files add up to the files given, documents
\* and errors have one entry per successful and per failed file, for
\* those files and in their order, total_chunks is the sum over the
\* successful documents, and the successful files are those whose
\* Document is completed
C27_ResultAccounts ==
    Gathered =>
       LET r == IngestResults
           ok == {p \in IngestPipelines : outcome[p] = "success"}
       IN  /\ r.total_files = NumIngest
           /\ r.successful_files + r.failed_files = r.total_files
           /\ Len(r.documents) = r.successful_files
           /\ Len(r.errors) = r.failed_files
           /\ r.successful_files = Cardinality(ok)
           /\ {r.documents[i].document_id : i \in DOMAIN r.documents} = {doc[p] : p \in ok}
           /\ \A i, j \in DOMAIN r.documents :
                 i # j => r.documents[i].document_id # r.documents[j].document_id
           /\ r.statistics.total_chunks = SumTotal(ok)
           /\ ok = CompletedRuns

\* C27 witness: a batch with successful and failed files has returned
C27_Witness ==
    /\ Gathered
    /\ IngestResults.successful_files = NumIngest - 1
    /\ IngestResults.failed_files = 1
    /\ IngestResults.statistics.total_chunks > NumIngest

\* the stages a Document passes while it is being processed
ProcessingStages ==
    {"initializing", "uploading_extracting", "content_extracted", "embedding"}

\* C29 (as claimed): in every state of every Document status and
\* processing_stage agree: processing with one of the four working
\* stages, completed with completed, failed with failed
C29_StatusStageAgree ==
    \A d \in DOMAIN docs :
        /\ docs[d].status = "processing" <=> docs[d].processing_stage \in ProcessingStages
        /\ docs[d].status = "completed" <=> docs[d].processing_stage = "completed"
        /\ docs[d].status = "failed" <=> docs[d].processing_stage = "failed"

\* C28 (as claimed): once the ingestion and the deletions have finished,
\* every chunk in the vector store carries the document_id of a Document
\* record that exists
C28_NoOrphanChunks ==
    Quiet =>
       \A k \in DOMAIN vectors : vectors[k].document_id \in DOMAIN docs

\* the least number of stretches of chunk_duration_ms that cover t
CeilWindows(t) ==
    CHOOSE n \in 0..(MaxWindows + 1) :
        /\ n * chunk_duration_ms >= t
        /\ \A m \in 0..(MaxWindows + 1) : m * chunk_duration_ms >= t => n <= m

\* C26: a file of at most 20 MB goes to the backend in one call and its
\* segments keep the timestamps of the answer; a larger file of duration T
\* is cut into windows that start at 0, follow one another without gap or
\* overlap, last at most 10 minutes each, end at T and number
\* ceil(T / 10 min), and the calls made so far are the first windows, one
\* call per window
C26_WindowsPartition ==
    LET T == audio.total_duration_ms
        W == SplitAudio(0, T)
    IN  IF IsSmallFile(audio.file_size)
        THEN /\ Len(calls) <= 1
             /\ chunk_i = 0
             /\ calls # <<>> =>
                   /\ calls[1] = [start_time |-> 0, end_time |-> T]
                   /\ \A j \in DOMAIN audio.responses[1].segments :
                         /\ all_segments[j].start = audio.responses[1].segments[j].start
                         /\ all_segments[j].end = audio.responses[1].segments[j].end
                   /\ audio.responses[1].segments # <<>> =>
                         Len(all_segments) = Len(audio.responses[1].segments)
        ELSE /\ Len(W) = CeilWindows(T)
             /\ W # <<>> => W[1].start_time = 0 /\ W[Len(W)].end_time = T
             /\ \A i \in DOMAIN W :
                   /\ W[i].start_time < W[i].end_time
                   /\ W[i].end_time - W[i].start_time <= chunk_duration_ms
                   /\ i < Len(W) => W[i].end_time = W[i + 1].start_time
             /\ calls = SubSeq(W, 1, chunk_i)
             /\ Len(calls) <= Len(W)

\* C26 witness: a large file whose last window is a short one has been
\* transcribed, one call per window
C26_Witness ==
    /\ ~IsSmallFile(audio.file_size)
    /\ audio.total_duration_ms = chunk_duration_ms * (MaxWindows - 1) + 1
    /\ Len(calls) = MaxWindows
    /\ calls[MaxWindows].end_time - calls[MaxWindows].start_time = 1

\* the threads inside detect_scenes_from_video or select_key_frames_from_video
Detecting ==
    {t \in Threads :
        tpc[t] \in {"detect_scenes_from_video", "select_key_frames_from_video"}}

\* C30 (as claimed): at most one thread at a time is inside scene detection
\* or key-frame selection, and the detector has one lock: __init__ creates
\* no second Lock object, however the threads obtain the detector
C30_DetectionSerialized ==
    /\ Cardinality(Detecting) <= 1
    /\ Len(lock_holder) <= 1

RECURSIVE IdsOf(_)
\* the ids of the vectors of a list of upsert requests, in request order
IdsOf(requests) ==
    IF requests = <<>> THEN <<>>
    ELSE IdsOf(SubSeq(requests, 1, Len(requests) - 1))
         \o [k \in DOMAIN requests[Len(requests)] |-> requests[Len(requests)][k].id]

====
